---- MODULE Spec2Model ----
(***************************************************************************)
(* Model of vorleser-server's on-the-fly transcoding stream, OpusFile      *)
(* (src/src/encoder/opusfile.rs): a Read + Seek byte stream that frames    *)
(* the Opus packets of a GStreamer pipeline into Ogg pages.                *)
(*                                                                         *)
(* Representation.                                                         *)
(*  - A byte is a tagged tuple: <<0, b>> is the literal byte b, <<1, k, j>>*)
(*    is byte j of the payload of the k-th Opus packet of the input,       *)
(*    <<2, i, pg>> is byte i of the CRC-32 of page pg, <<3, j>> is byte j  *)
(*    of the encoder's comment header after its "OpusTags" magic.          *)
(*  - A page is held as [flags, granule, pageno, pkts]; PageHeader and     *)
(*    PageBody give the bytes of its header and of its body.               *)
(*  - The caller's buffer is held as the list of the slices copied into it *)
(*    (chunks); Bytes gives the bytes those slices denote.                 *)
(*  - Option<T> is [some |-> BOOLEAN, v |-> T].                            *)
(***************************************************************************)
EXTENDS Integers, Sequences, FiniteSets, TLC

\* ------------------------------------------------------------------ bounds

\* Number of Opus packets the input encodes to (2 full pages and a short one).
NumPackets == 56
\* Number of read/seek calls made on one stream.
MaxOps == 3

\* The messages the pipeline posts while create waits are at most MaxMsgs.
MaxMsgs == 3

\* -------------------------------------------------------- program constants

FRAME_SIZE == 20
RATE == 48000
page_header_size == 53
page_body_size == 4160
packet_size == 160
SERIAL == 15733587
\* Sizes of the two stream-header packets the encoder hands over (the ID
\* header is the 19 bytes of test::read_header; both pages total 122 bytes).
ID_HEADER_LEN == 19
COMMENT_HEADER_LEN == 47
\* libogg: a page is put out once more than this many body bytes are buffered.
PAGE_FILL == 4096
\* libogg: the fixed part of a page header, before the segment table.
PAGE_FIXED_HEADER == 27

Min(a, b) == IF a < b THEN a ELSE b

\* OpusSpec::default
spec == [page_header_size |-> page_header_size,
         page_body_size |-> page_body_size,
         packet_size |-> packet_size,
         packet_length_ms |-> FRAME_SIZE,
         rate |-> RATE]

\* OpusSpec::page_duration_ms
page_duration_ms == (spec.page_body_size \div spec.packet_size) * spec.packet_length_ms

None(dflt) == [some |-> FALSE, v |-> dflt]
Some(x) == [some |-> TRUE, v |-> x]

NoPage == [flags |-> 0, granule |-> 0, pageno |-> 0, pkts |-> <<>>]

\* ------------------------------------------------------------ byte values

LitBytes(s) == [i \in 1..Len(s) |-> <<0, s[i]>>]

\* "OggS"
OGGS == LitBytes(<<79, 103, 103, 83>>)

\* The encoder's ID header: "OpusHead", version 1, 2 channels, pre-skip 312,
\* input rate 8000, gain 0, mapping family 0.
ID_HEADER == LitBytes(<<79, 112, 117, 115, 72, 101, 97, 100, 1, 2, 56, 1,
                        64, 31, 0, 0, 0, 0, 0>>)

\* The encoder's comment header: "OpusTags" and the encoder's vendor string
\* and tags.
CommentHeader(len) ==
  [j \in 1..len |->
     IF j <= 8 THEN <<0, <<79, 112, 117, 115, 84, 97, 103, 115>>[j]>>
     ELSE <<3, j - 1>>]

\* The comment header opusenc writes for the inputs of the tests.
COMMENT_HEADER == CommentHeader(COMMENT_HEADER_LEN)

\* Byte i (0 = least significant) of v in little-endian order; the values of
\* the model stay below 2^31, so the bytes above the fourth are zero.
LE(v, i) ==
  IF i > 3 THEN <<0, 0>>
  ELSE <<0, (v \div (CASE i = 0 -> 1 [] i = 1 -> 256 [] i = 2 -> 65536
                       [] OTHER -> 16777216)) % 256>>

\* The payload of a packet: pk = [kind, idx, len].
Payload(pk) ==
  CASE pk.kind = "id" -> ID_HEADER
    [] pk.kind = "comment" -> CommentHeader(pk.len)
    [] OTHER -> [j \in 1..pk.len |-> <<1, pk.idx, j - 1>>]

RECURSIVE SumLen(_)
SumLen(pkts) == IF pkts = <<>> THEN 0 ELSE Head(pkts).len + SumLen(Tail(pkts))

\* A page header without its segment table.
HeaderLenFixed(pg) == PAGE_FIXED_HEADER

\* Page.header.len(): the fixed part and one lacing value per packet.
HeaderLen(pg) == PAGE_FIXED_HEADER + Len(pg.pkts)
BodyLen(pg) == SumLen(pg.pkts)

\* Page.header: capture pattern, version, flags, granule position, serial,
\* page sequence number, checksum, segment count, segment table.
PageHeader(pg) ==
  [i \in 1..HeaderLen(pg) |->
     LET o == i - 1 IN
     IF o < 4 THEN OGGS[i]
     ELSE IF o = 4 THEN <<0, 0>>
     ELSE IF o = 5 THEN <<0, pg.flags>>
     ELSE IF o < 14 THEN LE(pg.granule, o - 6)
     ELSE IF o < 18 THEN LE(SERIAL, o - 14)
     ELSE IF o < 22 THEN LE(pg.pageno, o - 18)
     ELSE IF o < 26 THEN <<2, o - 22, pg>>
     ELSE IF o = 26 THEN <<0, Len(pg.pkts)>>
     ELSE <<0, pg.pkts[o - 26].len>>]

RECURSIVE ConcatPayloads(_)
ConcatPayloads(pkts) ==
  IF pkts = <<>> THEN <<>> ELSE Payload(Head(pkts)) \o ConcatPayloads(Tail(pkts))

\* Page.body
PageBody(pg) == ConcatPayloads(pg.pkts)

\* ------------------------------------------- ogger::Stream (libogg framer)

\* Stream::new with the first page taken as already put out.
StreamStarted ==
  [lacing |-> <<>>, b_o_s |-> TRUE, e_o_s |-> FALSE, pageno |-> 0]

\* Stream::new: an empty framer, no page put out yet.
StreamNew ==
  [lacing |-> <<>>, b_o_s |-> FALSE, e_o_s |-> FALSE, pageno |-> 0]

\* Stream::packetin: buffers the packet (every packet of the model is shorter
\* than 255 bytes: one segment each) and latches its end-of-stream flag.
packetin(os, packet) ==
  [os EXCEPT !.lacing = Append(@, [pk |-> packet.pk, granulepos |-> packet.granulepos]),
             !.e_o_s = @ \/ packet.e_o_s]

\* The framer's scan for the packets of the next page: it stops, and forces
\* the page out, at the first packet found once more than PAGE_FILL body bytes
\* and at least four packets are taken.
RECURSIVE FillScan(_, _, _, _, _)
FillScan(lacing, vals, acc, done, granule) ==
  IF vals >= Min(Len(lacing), 255)
  THEN [vals |-> vals, force |-> vals = 255, granule |-> granule]
  ELSE IF acc > PAGE_FILL /\ done >= 4
  THEN [vals |-> vals, force |-> TRUE, granule |-> granule]
  ELSE FillScan(lacing, vals + 1, acc + lacing[vals + 1].pk.len, done + 1,
                lacing[vals + 1].granulepos)

\* The page the framer builds (if any) and the framer after it. The first
\* page holds the first packet alone, has granule position 0 and the BOS flag;
\* a page has the EOS flag when end-of-stream is latched and nothing is left.
FlushI(os, force) ==
  LET scan == IF os.b_o_s THEN FillScan(os.lacing, 0, 0, 0, 0 - 1)
              ELSE [vals |-> 1, force |-> FALSE, granule |-> 0]
      vals == scan.vals
      page == [flags |-> (IF os.b_o_s THEN 0 ELSE 2)
                         + (IF os.e_o_s /\ Len(os.lacing) = vals THEN 4 ELSE 0),
               granule |-> scan.granule,
               pageno |-> os.pageno,
               pkts |-> [i \in 1..vals |-> os.lacing[i].pk]]
  IN IF os.lacing = <<>> \/ ~(force \/ scan.force)
     THEN [os |-> os, page |-> None(NoPage)]
     ELSE [os |-> [os EXCEPT !.lacing = SubSeq(@, vals + 1, Len(@)),
                             !.b_o_s = TRUE,
                             !.pageno = @ + 1],
           page |-> Some(page)]

\* Stream::flush giving a page only when the framer would give one anyway.
flush_unforced(os) == FlushI(os, FALSE)

\* Stream::flush
flush(os) == FlushI(os, TRUE)

\* Stream::pageout forcing a page out once 13 packets are queued.
pageout_half(os) == FlushI(os, Len(os.lacing) >= 13)

\* Stream::pageout: forced only once end-of-stream is latched, or for the
\* first page of the stream.
pageout(os) ==
  FlushI(os, (os.e_o_s /\ os.lacing # <<>>) \/ (os.lacing # <<>> /\ ~os.b_o_s))

\* ------------------------------------------------- the pipeline's appsink

\* The stream headers opusenc puts in the caps of the appsink's pad: the ID
\* header and a comment header of clen bytes.
StreamHeaders(clen) ==
  << [kind |-> "id", idx |-> 0, len |-> ID_HEADER_LEN],
     [kind |-> "comment", idx |-> 1, len |-> clen] >>

\* The pipeline after build_pipeline and create, Playing, for an input
\* [n, audio, clen]: if the input has an audio stream the pad-added callback
\* has made the encoder and the appsink (sink), which holds the n packets
\* the encoder makes of the input, and the sink's pad has its caps; if it has
\* none there is no appsink. pad is how the callback ended, bus the messages
\* posted and not yet taken, posted their number.
PipelineOn(input) ==
  [n |-> IF input.audio THEN input.n ELSE 0,
   pos |-> 0,
   drained |-> FALSE,
   sink |-> input.audio,
   caps |-> input.audio,
   headers |-> IF input.audio THEN StreamHeaders(input.clen) ELSE <<>>,
   pad |-> IF input.audio THEN "linked" ELSE "absent",
   bus |-> <<>>,
   posted |-> 0]

\* The pipeline for an audio input of n packets.
PipelineNew(n) == PipelineOn([n |-> n, audio |-> TRUE, clen |-> COMMENT_HEADER_LEN])

\* AppSink::pull_sample: the next packet, or Err once the source is at its end.
pull_sample(pl) ==
  IF pl.pos < pl.n
  THEN [ok |-> TRUE, idx |-> pl.pos, pl |-> [pl EXCEPT !.pos = @ + 1]]
  ELSE [ok |-> FALSE, idx |-> 0, pl |-> [pl EXCEPT !.drained = TRUE]]

\* The appsink's "eos" property, read after a pull: false while samples are
\* queued; after the last sample was pulled it is e, true only if the
\* end-of-stream event has already reached the sink.
eos_property(pl, e) == pl.pos = pl.n /\ e

\* Pipeline::seek with ACCURATE | KEY_UNIT | FLUSH: the queue is flushed and
\* the next packet is the one whose audio starts at millis.
pipeline_seek(pl, millis) ==
  [pl EXCEPT !.pos = Min(millis \div FRAME_SIZE, pl.n), !.drained = FALSE]

\* ------------------------------------------------------------- OpusFile

\* OpusFile::create, given the pipeline build_pipeline returned.
Created(pl) ==
  [byte_offset |-> 0,
   header_data |-> None(<<>>),
   stream |-> StreamNew,
   packet_num |-> 0,
   cached_page |-> None(NoPage),
   wrote_page_header |-> 0,
   wrote_page_body |-> 0,
   to_discard |-> 0,
   pipeline |-> pl]

\* OpusFile::create on an audio input of n packets.
create(n) == Created(PipelineNew(n))

\* OpusFile::get_sink: Err(InvalidState("No AppSink (yet)")) if the pipeline
\* has no element of the sink's name.
get_sink(f) ==
  [ok |-> f.pipeline.sink, err |-> IF f.pipeline.sink THEN "none" ELSE "InvalidState"]

\* get_opus_header_data, given what get_sink()? returned: the buffers of the
\* streamheader field of the sink pad's caps, InvalidState("No audio stream")
\* if no pad of the sink has audio caps.
HeadersOf(f, sink) ==
  IF ~sink.ok THEN [ok |-> FALSE, err |-> sink.err, headers |-> <<>>]
  ELSE IF ~f.pipeline.caps THEN [ok |-> FALSE, err |-> "InvalidState", headers |-> <<>>]
  ELSE [ok |-> TRUE, err |-> "none", headers |-> f.pipeline.headers]

\* OpusFile::get_opus_header_data: the encoder's stream headers.
get_opus_header_data(f) == HeadersOf(f, get_sink(f))

\* build_header_data, the loop over flush for the headers after the first.
RECURSIVE DrainFlush(_, _)
DrainFlush(os, data) ==
  LET r == flush(os) IN
  IF r.page.some
  THEN DrainFlush(r.os, data \o PageHeader(r.page.v) \o PageBody(r.page.v))
  ELSE [os |-> os, data |-> data]

\* build_header_data, the loop over the headers from the i-th on.
RECURSIVE BuildFrom(_, _, _, _)
BuildFrom(headers, i, os, data) ==
  IF i > Len(headers) THEN [ok |-> TRUE, os |-> os, data |-> data]
  ELSE LET os1 == packetin(os, [pk |-> headers[i], granulepos |-> 0, e_o_s |-> FALSE])
       IN IF i > 1
          THEN LET d == DrainFlush(os1, data)
               IN BuildFrom(headers, i + 1, d.os, d.data)
          ELSE LET r == flush(os1)
               IN IF r.page.some
                  THEN BuildFrom(headers, i + 1, r.os,
                                 data \o PageHeader(r.page.v) \o PageBody(r.page.v))
                  ELSE [ok |-> FALSE, os |-> r.os, data |-> data]

\* build_header_data, its result once the loop b is through: NoStreamHeader
\* if the first flush gave no page or fewer than 2 bytes were framed.
HeaderBuilt(f, b) ==
  [ok |-> b.ok /\ Len(b.data) >= 2,
   err |-> IF b.ok /\ Len(b.data) >= 2 THEN "none" ELSE "NoStreamHeader",
   f |-> [f EXCEPT !.stream = b.os], data |-> b.data]

\* build_header_data, given what get_opus_header_data()? returned.
BuildHeaders(f, g) ==
  IF ~g.ok THEN [ok |-> FALSE, err |-> g.err, f |-> f, data |-> <<>>]
  ELSE HeaderBuilt(f, BuildFrom(g.headers, 1, f.stream, <<>>))

\* OpusFile::build_header_data
build_header_data(f) == BuildHeaders(f, get_opus_header_data(f))

\* get_header_page_data, the branch that stores what build_header_data (b)
\* returned.
StoreHeader(b) ==
  IF b.ok
  THEN [ok |-> TRUE, err |-> "none",
        f |-> [b.f EXCEPT !.header_data = Some(b.data)], data |-> b.data]
  ELSE [ok |-> FALSE, err |-> b.err, f |-> b.f, data |-> <<>>]

\* get_header_page_data without its test of the cache: it builds every time.
get_header_page_data_anew(f) == StoreHeader(build_header_data(f))

\* OpusFile::get_header_page_data
get_header_page_data(f) ==
  IF f.header_data.some
  THEN [ok |-> TRUE, err |-> "none", f |-> f, data |-> f.header_data.v]
  ELSE StoreHeader(build_header_data(f))

\* get_next_page with its `while let` made an `if let`: it gives up after one
\* packet that completes no page.
get_next_page_once(f, e) ==
  LET s == pull_sample(f.pipeline) IN
  IF ~s.ok THEN [f |-> [f EXCEPT !.pipeline = s.pl], page |-> None(NoPage)]
  ELSE LET num == f.packet_num + 1
           packet == [pk |-> [kind |-> "audio", idx |-> s.idx, len |-> spec.packet_size],
                      granulepos |-> num * (RATE \div (1000 \div FRAME_SIZE)),
                      e_o_s |-> eos_property(s.pl, e)]
           r == pageout(packetin(f.stream, packet))
       IN [f |-> [f EXCEPT !.pipeline = s.pl, !.packet_num = num, !.stream = r.os],
           page |-> r.page]

\* OpusFile::get_next_page
RECURSIVE get_next_page(_, _)
get_next_page(f, e) ==
  LET s == pull_sample(f.pipeline) IN
  IF ~s.ok THEN [f |-> [f EXCEPT !.pipeline = s.pl], page |-> None(NoPage)]
  ELSE LET eos == eos_property(s.pl, e)
           num == f.packet_num + 1
           packet == [pk |-> [kind |-> "audio", idx |-> s.idx, len |-> spec.packet_size],
                      granulepos |-> num * (RATE \div (1000 \div FRAME_SIZE)),
                      e_o_s |-> eos]
           r == pageout(packetin(f.stream, packet))
           f1 == [f EXCEPT !.pipeline = s.pl, !.packet_num = num, !.stream = r.os]
       IN IF r.page.some THEN [f |-> f1, page |-> r.page]
          ELSE get_next_page(f1, e)

\* byte_to_offset with the page size taken to be the page body alone.
OffsetPastBody(h, position) ==
  LET page_size == spec.page_body_size
      offset_no_header == position - Len(h.data)
      pages == offset_no_header \div page_size
      extra_bytes == offset_no_header % page_size
  IN IF ~h.ok
     THEN [panicked |-> FALSE, err |-> h.err, f |-> h.f,
           offset |-> [millis |-> 0, packet |-> 0, extra_bytes |-> 0]]
     ELSE IF Len(h.data) > position
     THEN [panicked |-> TRUE, err |-> "none", f |-> h.f,
           offset |-> [millis |-> 0, packet |-> 0, extra_bytes |-> 0]]
     ELSE [panicked |-> FALSE, err |-> "none", f |-> h.f,
           offset |-> [millis |-> pages * page_duration_ms,
                       packet |-> pages * (spec.page_body_size \div spec.packet_size),
                       extra_bytes |-> extra_bytes]]

\* byte_to_offset, given the header h that get_header_page_data returned.
OffsetPast(h, position) ==
  LET page_size == spec.page_header_size + spec.page_body_size
      offset_no_header == position - Len(h.data)
      pages == offset_no_header \div page_size
      extra_bytes == offset_no_header % page_size
  IN IF ~h.ok
     THEN [panicked |-> FALSE, err |-> h.err, f |-> h.f,
           offset |-> [millis |-> 0, packet |-> 0, extra_bytes |-> 0]]
     ELSE IF Len(h.data) > position
     THEN [panicked |-> TRUE, err |-> "none", f |-> h.f,
           offset |-> [millis |-> 0, packet |-> 0, extra_bytes |-> 0]]
     ELSE [panicked |-> FALSE, err |-> "none", f |-> h.f,
           offset |-> [millis |-> pages * page_duration_ms,
                       packet |-> pages * (spec.page_body_size \div spec.packet_size),
                       extra_bytes |-> extra_bytes]]

\* OpusFile::byte_to_offset
byte_to_offset(f, position) == OffsetPast(get_header_page_data(f), position)

\* ------------------------------------- byte_to_offset on wide positions

\* A position is a usize (64 bits) and the fields of Offset are u32. To hold
\* positions beyond 2^31 a wide number is a triple of 16-bit limbs, least
\* significant first; a u32 is a wide number whose third limb is 0.
LIMB == 65536

\* The wide number of an integer n, 0 <= n < 2^31.
Wide(n) == <<n % LIMB, (n \div LIMB) % LIMB, 0>>

\* w * m + a for small m and a.
WMulAdd(w, m, a) ==
  LET l0 == w[1] * m + a
      l1 == w[2] * m + l0 \div LIMB
      l2 == w[3] * m + l1 \div LIMB
  IN <<l0 % LIMB, l1 % LIMB, l2>>

\* w - s for a small s <= w.
WSub(w, s) ==
  IF w[1] >= s THEN <<w[1] - s, w[2], w[3]>>
  ELSE IF w[2] > 0 THEN <<w[1] + LIMB - s, w[2] - 1, w[3]>>
  ELSE <<w[1] + LIMB - s, LIMB - 1, w[3] - 1>>

\* w < s for a small s.
WLess(w, s) == w[3] = 0 /\ w[2] = 0 /\ w[1] < s

\* Quotient and remainder of w by a small d.
WDivMod(w, d) ==
  LET t2 == (w[3] % d) * LIMB + w[2]
      t1 == (t2 % d) * LIMB + w[1]
  IN [q |-> <<t1 \div d, t2 \div d, w[3] \div d>>, r |-> t1 % d]

\* `w as u32`: the low 32 bits.
AsU32(w) == <<w[1], w[2], 0>>

\* byte_to_offset with the page size taken to be the page body alone.
OffsetFarBody(h, position, build) ==
  LET dm == WDivMod(WSub(position, Len(h.data)), spec.page_body_size)
      millis == WMulAdd(AsU32(dm.q), page_duration_ms, 0)
      packet == WMulAdd(dm.q, spec.page_body_size \div spec.packet_size, 0)
  IN IF ~h.ok
     THEN [panicked |-> FALSE, err |-> h.err, f |-> h.f,
           offset |-> [millis |-> Wide(0), packet |-> Wide(0), extra_bytes |-> 0]]
     ELSE IF WLess(position, Len(h.data)) \/ (millis[3] # 0 /\ build = "debug")
     THEN [panicked |-> TRUE, err |-> "none", f |-> h.f,
           offset |-> [millis |-> Wide(0), packet |-> Wide(0), extra_bytes |-> 0]]
     ELSE [panicked |-> FALSE, err |-> "none", f |-> h.f,
           offset |-> [millis |-> AsU32(millis), packet |-> AsU32(packet),
                       extra_bytes |-> dm.r]]

\* byte_to_offset on a wide position, given the header h that
\* get_header_page_data returned. pages is a usize; `pages as u32 *
\* page_duration_ms()` is a u32 product, which panics on overflow in a build
\* with overflow checks (debug) and wraps in one without (release);
\* `(pages * 26) as u32` is a usize product cut to 32 bits.
OffsetFar(h, position, build) ==
  LET page_size == spec.page_header_size + spec.page_body_size
      dm == WDivMod(WSub(position, Len(h.data)), page_size)
      millis == WMulAdd(AsU32(dm.q), page_duration_ms, 0)
      packet == WMulAdd(dm.q, spec.page_body_size \div spec.packet_size, 0)
  IN IF ~h.ok
     THEN [panicked |-> FALSE, err |-> h.err, f |-> h.f,
           offset |-> [millis |-> Wide(0), packet |-> Wide(0), extra_bytes |-> 0]]
     ELSE IF WLess(position, Len(h.data)) \/ (millis[3] # 0 /\ build = "debug")
     THEN [panicked |-> TRUE, err |-> "none", f |-> h.f,
           offset |-> [millis |-> Wide(0), packet |-> Wide(0), extra_bytes |-> 0]]
     ELSE [panicked |-> FALSE, err |-> "none", f |-> h.f,
           offset |-> [millis |-> AsU32(millis), packet |-> AsU32(packet),
                       extra_bytes |-> dm.r]]

\* OpusFile::byte_to_offset on a wide position.
byte_to_offset_far(f, position, build) ==
  OffsetFar(get_header_page_data(f), position, build)

\* get_next_page's granule position for a wide packet_num, as it stands
\* before the pull: `self.packet_num += 1` and `self.packet_num * (RATE /
\* (1000 / FRAME_SIZE))` are u32 operations, which panic on overflow in a
\* build with overflow checks and wrap in one without; exact is the product
\* without a width.
granulepos_far(packet_num, build) ==
  LET num == WMulAdd(packet_num, 1, 1)
      product == WMulAdd(AsU32(num), RATE \div (1000 \div FRAME_SIZE), 0)
      overflows == num[3] # 0 \/ product[3] # 0
  IN [panicked |-> overflows /\ build = "debug",
      granulepos |-> AsU32(product),
      exact |-> product]

\* ---------------------------------------------------- the caller's buffer

\* What one write into the caller's buffer copied: bytes [lo, hi) of the header
\* or of the body of page pg, or the bytes raw of the stream header.
Chunk(src, pg, lo, hi) == [src |-> src, pg |-> pg, lo |-> lo, hi |-> hi, raw |-> <<>>]
RawChunk(bytes) == [src |-> "raw", pg |-> NoPage, lo |-> 0, hi |-> Len(bytes), raw |-> bytes]

ChunkBytes(c) ==
  CASE c.src = "raw" -> c.raw
    [] c.src = "header" -> SubSeq(PageHeader(c.pg), c.lo + 1, c.hi)
    [] OTHER -> SubSeq(PageBody(c.pg), c.lo + 1, c.hi)

\* The bytes a list of chunks put into the buffer, in order.
RECURSIVE Bytes(_)
Bytes(chunks) ==
  IF chunks = <<>> THEN <<>> ELSE ChunkBytes(Head(chunks)) \o Bytes(Tail(chunks))

\* ------------------------------------------------------ OpusFile: Read

\* OpusFile::write_header into a buffer with room bytes left.
write_header(f, room) ==
  LET page == f.cached_page.v
      avail == HeaderLen(page) - f.wrote_page_header
      discarded == IF avail > 0 /\ f.to_discard > 0
                   THEN (IF avail - f.to_discard > 0 THEN f.to_discard ELSE avail)
                   ELSE 0
      left == avail - discarded
      wrote == Min(room, left)
      lo == f.wrote_page_header + discarded
  IN IF ~f.cached_page.some
     THEN [ok |-> FALSE, f |-> f, wrote |-> 0, discarded |-> 0, out |-> <<>>]
     ELSE [ok |-> TRUE,
           f |-> [f EXCEPT !.to_discard = @ - discarded,
                           !.wrote_page_header = HeaderLen(page) - (left - wrote)],
           wrote |-> wrote,
           discarded |-> discarded,
           out |-> IF wrote > 0 THEN <<Chunk("header", page, lo, lo + wrote)>> ELSE <<>>]

\* OpusFile::write_body into a buffer with room bytes left.
write_body(f, room) ==
  LET page == f.cached_page.v
      avail == BodyLen(page) - f.wrote_page_body
      discarded == IF avail > 0 /\ f.to_discard > 0
                   THEN (IF avail - f.to_discard > 0 THEN f.to_discard ELSE avail)
                   ELSE 0
      left == avail - discarded
      wrote == Min(room, left)
      lo == f.wrote_page_body + discarded
  IN IF ~f.cached_page.some
     THEN [ok |-> FALSE, f |-> f, wrote |-> 0, discarded |-> 0, out |-> <<>>]
     ELSE [ok |-> TRUE,
           f |-> [f EXCEPT !.to_discard = @ - discarded,
                           !.wrote_page_body = BodyLen(page) - (left - wrote),
                           !.cached_page = IF left - wrote = 0 THEN None(NoPage) ELSE @],
           wrote |-> wrote,
           discarded |-> discarded,
           out |-> IF wrote > 0 THEN <<Chunk("body", page, lo, lo + wrote)>> ELSE <<>>]

\* read_from_pages, when get_next_page returned g with a page: the page is
\* cached and the in-page counters are set to 0; to_discard stays.
CachePage(g) ==
  [g.f EXCEPT !.cached_page = g.page,
              !.wrote_page_header = 0,
              !.wrote_page_body = 0]

\* OpusFile::read_from_pages into a buffer of buflen bytes, wrote of them
\* written already (out). OuterLoop fetches a page when none is cached and
\* returns when there is none; InnerLoop writes header and body while the
\* buffer has room and returns once it is full.
RECURSIVE OuterLoop(_, _, _, _, _)
RECURSIVE InnerLoop(_, _, _, _, _)
InnerLoop(f, buflen, wrote, out, e) ==
  LET h == write_header(f, buflen - wrote)
      b == write_body(h.f, buflen - wrote - h.wrote)
  IN IF ~(wrote < buflen) THEN [ok |-> TRUE, f |-> f, wrote |-> wrote, out |-> out]
     ELSE IF ~f.cached_page.some THEN OuterLoop(f, buflen, wrote, out, e)
     ELSE IF ~(h.ok /\ b.ok) THEN [ok |-> FALSE, f |-> b.f, wrote |-> wrote, out |-> out]
     ELSE InnerLoop(b.f, buflen, wrote + h.wrote + b.wrote, out \o h.out \o b.out, e)

OuterLoop(f, buflen, wrote, out, e) ==
  LET g == get_next_page(f, e)
  IN IF f.cached_page.some THEN InnerLoop(f, buflen, wrote, out, e)
     ELSE IF ~g.page.some THEN [ok |-> TRUE, f |-> g.f, wrote |-> wrote, out |-> out]
     ELSE InnerLoop(CachePage(g), buflen, wrote, out, e)

\* OpusFile::read_from_pages
read_from_pages(f, buflen, e) == OuterLoop(f, buflen, 0, <<>>, e)

\* read's `self.byte_offset += n` with `=` for `+=`.
advance_assign(byte_offset, n) == n

\* read's `self.byte_offset += n`.
advance(byte_offset, n) == byte_offset + n

\* read, its second half, given what read_from_pages (r) returned for the
\* rest bytes the buffer had left after the wrote_header header bytes hout:
\* the trace after it indexes buf[buf.len() - 2] and buf[buf.len() - 1].
ReadPages(r, wrote_header, hout, rest) ==
  IF ~r.ok
  THEN [panicked |-> FALSE, err |-> "NotConnected", f |-> r.f, ret |-> 0,
        out |-> hout \o r.out]
  ELSE IF rest < 2
  THEN [panicked |-> TRUE, err |-> "none", f |-> r.f, ret |-> 0, out |-> hout \o r.out]
  ELSE [panicked |-> FALSE, err |-> "none",
        f |-> [r.f EXCEPT !.byte_offset = advance(@, r.wrote)],
        ret |-> wrote_header + r.wrote,
        out |-> hout \o r.out]

\* read, given the header h that get_header_page_data().unwrap() returned:
\* the header bytes not yet read are written first; the trace after that
\* write indexes buf[wrote_header - 1] and buf[wrote_header] of the buffer
\* left after it.
ReadHeader(h, buflen, e) ==
  LET header_len == Len(h.data)
      in_header == h.f.byte_offset < header_len
      wrote_header == IF in_header THEN Min(buflen, header_len - h.f.byte_offset) ELSE 0
      hout == IF wrote_header > 0
              THEN <<RawChunk(SubSeq(h.data, h.f.byte_offset + 1,
                                     h.f.byte_offset + wrote_header))>>
              ELSE <<>>
      rest == buflen - wrote_header
      f2 == [h.f EXCEPT !.byte_offset = advance(@, wrote_header)]
  IN IF ~h.ok THEN [panicked |-> TRUE, err |-> "none", f |-> h.f, ret |-> 0, out |-> <<>>]
     ELSE IF in_header /\ (wrote_header = 0 \/ wrote_header >= rest)
     THEN [panicked |-> TRUE, err |-> "none", f |-> h.f, ret |-> 0, out |-> hout]
     ELSE IF ~(f2.byte_offset >= header_len)
     THEN [panicked |-> FALSE, err |-> "none", f |-> f2, ret |-> wrote_header, out |-> hout]
     ELSE ReadPages(read_from_pages(f2, rest, e), wrote_header, hout, rest)

\* impl Read for OpusFile: read into a buffer of buflen bytes; e is what the
\* sink's eos property says if this call pulls the last sample. ret is the
\* count returned; panicked says the call aborted instead.
read(f, buflen, e) == ReadHeader(get_header_page_data(f), buflen, e)

\* ------------------------------------------------------ OpusFile: Seek

\* seek adding the bytes to discard to those still pending.
SeekToAdding(b, pos) ==
  IF b.panicked THEN [panicked |-> TRUE, err |-> "none", f |-> b.f, ret |-> 0]
  ELSE IF b.err # "none" THEN [panicked |-> FALSE, err |-> "Other", f |-> b.f, ret |-> 0]
  ELSE [panicked |-> FALSE, err |-> "none",
        f |-> [b.f EXCEPT !.pipeline = pipeline_seek(@, b.offset.millis),
                          !.to_discard = @ + b.offset.extra_bytes,
                          !.packet_num = b.offset.packet,
                          !.cached_page = None(NoPage),
                          !.wrote_page_header = 0,
                          !.wrote_page_body = 0],
        ret |-> pos]

\* seek, after byte_to_offset returned b: the pipeline is paused, moved to
\* offset.millis and set playing again, the page cursor is reset.
SeekTo(b, pos) ==
  IF b.panicked THEN [panicked |-> TRUE, err |-> "none", f |-> b.f, ret |-> 0]
  ELSE IF b.err # "none" THEN [panicked |-> FALSE, err |-> "Other", f |-> b.f, ret |-> 0]
  ELSE [panicked |-> FALSE, err |-> "none",
        f |-> [b.f EXCEPT !.pipeline = pipeline_seek(@, b.offset.millis),
                          !.to_discard = b.offset.extra_bytes,
                          !.packet_num = b.offset.packet,
                          !.cached_page = None(NoPage),
                          !.wrote_page_header = 0,
                          !.wrote_page_body = 0],
        ret |-> pos]

\* impl Seek for OpusFile: seek(SeekFrom::Start(pos)) when whence = "Start";
\* the other variants reach unimplemented!().
seek(f, whence, pos) ==
  IF whence # "Start" THEN [panicked |-> TRUE, err |-> "none", f |-> f, ret |-> 0]
  ELSE SeekTo(byte_to_offset([f EXCEPT !.byte_offset = pos], pos), pos)

\* seek, after byte_to_offset returned b, when a call on the pipeline fails:
\* set_state(Paused) (fault "pause") and set_state(Playing) ("play") return
\* their error as an io::Error of kind Other; the result of Pipeline::seek
\* ("seek") is bound to seek_res and not looked at.
SeekFailing(b, pos, fault) ==
  LET reset == [b.f EXCEPT !.pipeline = IF fault = "seek" THEN @
                                         ELSE pipeline_seek(@, b.offset.millis),
                           !.to_discard = b.offset.extra_bytes,
                           !.packet_num = b.offset.packet,
                           !.cached_page = None(NoPage),
                           !.wrote_page_header = 0,
                           !.wrote_page_body = 0]
  IN IF b.panicked THEN [panicked |-> TRUE, err |-> "none", f |-> b.f, ret |-> 0]
     ELSE IF b.err # "none" \/ fault = "pause"
     THEN [panicked |-> FALSE, err |-> "Other", f |-> b.f, ret |-> 0]
     ELSE IF fault = "play"
     THEN [panicked |-> FALSE, err |-> "Other", f |-> reset, ret |-> 0]
     ELSE [panicked |-> FALSE, err |-> "none", f |-> reset, ret |-> pos]

\* seek(SeekFrom::Start(pos)) with that failure.
seek_failing(f, pos, fault) ==
  SeekFailing(byte_to_offset([f EXCEPT !.byte_offset = pos], pos), pos, fault)

\* ------------------------------------------------------- the database

\* The ids of the users, libraries and audiobooks the database can hold, and
\* the most rows library_permissions holds for one library and one user.
UserIds == {"u1", "u2"}
LibraryIds == {"l1", "l2"}
BookIds == {1, 2}
MaxPermRows == 2

\* The emails users are created with, "" being that of no row.
Emails == {"some@example.com", "other@example.com"}

\* The tables: users and libraries by id; library_permissions as the number
\* of rows for each (library_id, user_id); audiobooks as rows [id,
\* library_id, location, deleted], the location of book i being "loc" i.
\* email is the email of each row of users; unique_email says whether the
\* schema has a unique constraint on users.email.
EmptyDb ==
  [users |-> {}, libraries |-> {},
   library_permissions |-> [k \in LibraryIds \X UserIds |-> 0],
   audiobooks |-> {},
   email |-> [u \in UserIds |-> ""],
   unique_email |-> FALSE]

\* The rows of library_permissions.
PermRows(d) ==
  {r \in [library_id : LibraryIds, user_id : UserIds, row : 1..MaxPermRows] :
     r.row <= d.library_permissions[<<r.library_id, r.user_id>>]}

\* LibraryPermission::permit and the tests' insert: one more row.
permit(d, u, l) ==
  [d EXCEPT !.library_permissions[<<l, u>>] = @ + 1]

RECURSIVE PermitAll(_, _)
PermitAll(d, pairs) ==
  IF pairs = {} THEN d
  ELSE LET p == CHOOSE p \in pairs : TRUE
       IN PermitAll(permit(d, p[2], p[1]), pairs \ {p})

\* User::create, its query before the transaction: a row of users has the email.
email_taken(d, email) == \E u \in d.users : d.email[u] = email

\* insert_into(users::table): the row u with its email; the insert fails if
\* the schema wants emails unique and a row has the email.
users_insert(d, u, email) ==
  [ok |-> ~(d.unique_email /\ email_taken(d, email)),
   d |-> [d EXCEPT !.users = @ \cup {u}, !.email[u] = email]]

\* User::create, its exclusive transaction: the user's row and a permission
\* for every library; nothing if the insert fails.
user_transaction(d, u, email) ==
  LET i == users_insert(d, u, email)
  IN IF ~i.ok THEN [ret |-> "DatabaseError", d |-> d]
     ELSE [ret |-> "Ok", d |-> PermitAll(i.d, {<<l, u>> : l \in d.libraries})]

\* User::create run alone: AlreadyExists if a row has the email, else the
\* transaction; u is the id Uuid::new_v4 returns.
user_create(d, u, email) ==
  IF email_taken(d, email) THEN [ret |-> "AlreadyExists", d |-> d]
  ELSE user_transaction(d, u, email)

\* Library::create without its loop over the users.
library_insert(d, l) == [d EXCEPT !.libraries = @ \cup {l}]

\* Library::create: the library's row and a permission for every user.
library_create(d, l) ==
  PermitAll([d EXCEPT !.libraries = @ \cup {l}], {<<l, u>> : u \in d.users})

\* accessible_audiobooks without its filter on deleted.
any_book(b) == TRUE

\* accessible_audiobooks, `.filter(deleted.eq(false))`.
not_deleted(b) == ~b.deleted

\* The columns `.set(new_book)` assigns: all but the primary key.
changeset(b, new_book) ==
  [b EXCEPT !.library_id = new_book.library_id,
            !.location = new_book.location,
            !.deleted = new_book.deleted]

\* Audiobook::ensure_exists_in: if a book of the library has the location,
\* `update(audiobooks::table).set(new_book)`, an UPDATE without a WHERE
\* clause; else new_book is inserted, which fails if its id is taken.
ensure_exists_in(d, relative_path, library, new_book) ==
  IF \E b \in d.audiobooks : b.library_id = library /\ b.location = relative_path
  THEN [ok |-> TRUE,
        d |-> [d EXCEPT !.audiobooks = {changeset(b, new_book) : b \in @}]]
  ELSE IF \E b \in d.audiobooks : b.id = new_book.id
  THEN [ok |-> FALSE, d |-> d]
  ELSE [ok |-> TRUE, d |-> [d EXCEPT !.audiobooks = @ \cup {new_book}]]

\* The connections of the pool: what the request on each is doing. pc is
\* "idle", "checked" (User::create has found no row with its email and has
\* not begun its transaction) or "done" (it has returned ret).
Conns == {"c1", "c2"}
NoConns == [c \in Conns |-> [pc |-> "idle", email |-> "", ret |-> "none"]]

\* User::accessible_libraries: library_permissions joined with libraries,
\* the rows of the user; the result holds a library once per row, here as
\* the number of times each library is in it.
accessible_libraries(d, u) ==
  LET joined == {j \in PermRows(d) \X d.libraries :
                   j[1].library_id = j[2] /\ j[1].user_id = u}
  IN  [l \in {j[2] : j \in joined} |-> Cardinality({j \in joined : j[2] = l})]

\* The rows of accessible_audiobooks: audiobooks joined with libraries joined
\* with library_permissions, not deleted, the rows of the user.
BookRows(d, u) ==
  {j \in d.audiobooks \X d.libraries \X PermRows(d) :
     /\ j[1].library_id = j[2] /\ j[3].library_id = j[2]
     /\ not_deleted(j[1])
     /\ j[3].user_id = u}

\* The rows in the order of `.order(location.asc())`, from location i on.
RECURSIVE OrderByLocation(_, _)
OrderByLocation(rows, i) ==
  IF i > Cardinality(BookIds) THEN <<>>
  ELSE LET here == {j \in rows : j[1].location = i}
       IN [k \in 1..Cardinality(here) |-> (CHOOSE j \in here : TRUE)[1]]
          \o OrderByLocation(rows, i + 1)

\* User::accessible_audiobooks
accessible_audiobooks(d, u) == OrderByLocation(BookRows(d, u), 1)

\* ---------------------------------------------------------- the system

VARIABLES
  \* the fields of OpusFile
  byte_offset, header_data, stream, packet_num, cached_page,
  wrote_page_header, wrote_page_body, to_discard, pipeline,
  \* "ok", or "panicked" once a call has aborted the thread
  status,
  \* the calls made so far: [op, arg], and the last call with its outcome
  hist, last,
  \* the target of the last successful seek (0 if none) and the sum of the
  \* counts the reads have returned since
  seek_target, read_since,
  \* the server's database: users, libraries, library_permissions, audiobooks
  db,
  \* the requests on the connections to it
  conns

file_vars == <<byte_offset, header_data, stream, packet_num, cached_page,
               wrote_page_header, wrote_page_body, to_discard, pipeline>>
vars == <<byte_offset, header_data, stream, packet_num, cached_page,
          wrote_page_header, wrote_page_body, to_discard, pipeline,
          status, hist, last, seek_target, read_since, db, conns>>

Self ==
  [byte_offset |-> byte_offset, header_data |-> header_data, stream |-> stream,
   packet_num |-> packet_num, cached_page |-> cached_page,
   wrote_page_header |-> wrote_page_header, wrote_page_body |-> wrote_page_body,
   to_discard |-> to_discard, pipeline |-> pipeline]

Becomes(f) ==
  /\ byte_offset' = f.byte_offset
  /\ header_data' = f.header_data
  /\ stream' = f.stream
  /\ packet_num' = f.packet_num
  /\ cached_page' = f.cached_page
  /\ wrote_page_header' = f.wrote_page_header
  /\ wrote_page_body' = f.wrote_page_body
  /\ to_discard' = f.to_discard
  /\ pipeline' = f.pipeline

\* The stream header of the input: what the first call builds and caches.
HEADER == get_header_page_data(create(NumPackets)).data
HEADER_LEN == Len(HEADER)
PAGE_BYTES == spec.page_header_size + spec.page_body_size

\* A buffer that holds the whole output of the input.
WHOLE == HEADER_LEN + (NumPackets \div (spec.page_body_size \div spec.packet_size) + 1) * PAGE_BYTES

\* The canonical output: what one read of a fresh stream into a buffer that
\* holds everything returns when the end-of-stream event is seen in time.
CANON == Bytes(read(create(NumPackets), WHOLE, TRUE).out)

\* The buffer sizes the caller reads with.
BufSizes ==
  {1, 4, 5, 100, 400, HEADER_LEN + PAGE_BYTES - 1, HEADER_LEN + PAGE_BYTES, WHOLE}

\* The positions the caller seeks to: inside the stream header, at its end,
\* inside and at the ends of audio pages, and at the end of the output.
SeekPositions ==
  {0, HEADER_LEN, HEADER_LEN + 20, HEADER_LEN + PAGE_BYTES - 1,
   HEADER_LEN + PAGE_BYTES, HEADER_LEN + PAGE_BYTES + 2423,
   HEADER_LEN + 2 * PAGE_BYTES, Len(CANON)}

NoCall ==
  [op |-> "none", arg |-> 0, from |-> 0, panicked |-> FALSE, err |-> "none",
   ret |-> 0, out |-> <<>>]

Init ==
  /\ byte_offset = create(NumPackets).byte_offset
  /\ header_data = create(NumPackets).header_data
  /\ stream = create(NumPackets).stream
  /\ packet_num = create(NumPackets).packet_num
  /\ cached_page = create(NumPackets).cached_page
  /\ wrote_page_header = create(NumPackets).wrote_page_header
  /\ wrote_page_body = create(NumPackets).wrote_page_body
  /\ to_discard = create(NumPackets).to_discard
  /\ pipeline = create(NumPackets).pipeline
  /\ status = "ok"
  /\ hist = <<>>
  /\ last = NoCall
  /\ seek_target = 0
  /\ read_since = 0
  /\ db = EmptyDb
  /\ conns = NoConns

\* What a call leaves behind: r is what it returned.
Returned(r, op, arg) ==
  /\ Becomes(r.f)
  /\ status' = IF r.panicked THEN "panicked" ELSE "ok"
  /\ hist' = Append(hist, [op |-> op, arg |-> arg])
  /\ last' = [op |-> op, arg |-> arg, from |-> byte_offset,
              panicked |-> r.panicked, err |-> r.err, ret |-> r.ret,
              out |-> IF op = "read" THEN r.out ELSE <<>>]
  /\ seek_target' = IF op = "seek" /\ ~r.panicked /\ r.err = "none"
                     THEN arg ELSE seek_target
  /\ read_since' = IF r.panicked \/ r.err # "none" THEN read_since
                   ELSE IF op = "seek" THEN 0
                   ELSE IF op = "read" THEN read_since + r.ret
                   ELSE read_since
  /\ UNCHANGED <<db, conns>>

\* The owner calls read with a buffer of buflen bytes.
DoRead ==
  \E buflen \in BufSizes, e \in BOOLEAN :
    /\ status = "ok"
    /\ Len(hist) < MaxOps
    /\ Returned(read(Self, buflen, e), "read", buflen)

\* The owner calls seek(SeekFrom::Start(pos)).
DoSeek ==
  \E pos \in SeekPositions :
    /\ status = "ok"
    /\ Len(hist) < MaxOps
    /\ Returned([out |-> <<>>] @@ seek(Self, "Start", pos), "seek", pos)

\* The owner calls seek(SeekFrom::Current(_)) or seek(SeekFrom::End(_)).
DoSeekOther ==
  \E whence \in {"Current", "End"} :
    /\ status = "ok"
    /\ Len(hist) < MaxOps
    /\ Returned([out |-> <<>>] @@ seek(Self, whence, 0), "seek_other", 0)

Next == DoRead \/ DoSeek \/ DoSeekOther

Spec == Init /\ [][Next]_vars

\* ------------------------------------------- byte_to_offset on its own

\* The lengths of the comment header of the inputs: that of the inputs of
\* the tests, and a longer one (more tags), which makes header_len 175.
CommentLens == {COMMENT_HEADER_LEN, 100}

\* The build: with overflow checks (debug) or without (release).
Builds == {"debug", "release"}

\* Page counts of the positions asked for: the first pages, the position of
\* test::byte_offset, the last count whose duration fits a u32 and the
\* first that does not, and the first whose packet number does not.
ProbePages == {0, 1, 2, 35, 509000, 8259552, 8259553, 165191050}
ProbeExtras == {0, 1, 2423, PAGE_BYTES - 1}

ProbePositions ==
  {Wide(150000)} \cup
  {WMulAdd(Wide(k), PAGE_BYTES, HEADER_LEN + x) : k \in ProbePages, x \in ProbeExtras}

\* A stream on an input with a comment header of clen bytes: fresh, or with
\* its header built and cached by an earlier call.
StreamOn(clen, cached) ==
  IF cached
  THEN get_header_page_data(
         Created(PipelineOn([n |-> NumPackets, audio |-> TRUE, clen |-> clen]))).f
  ELSE Created(PipelineOn([n |-> NumPackets, audio |-> TRUE, clen |-> clen]))

OffsetInit ==
  \E clen \in CommentLens, cached \in BOOLEAN :
    /\ byte_offset = StreamOn(clen, cached).byte_offset
    /\ header_data = StreamOn(clen, cached).header_data
    /\ stream = StreamOn(clen, cached).stream
    /\ packet_num = StreamOn(clen, cached).packet_num
    /\ cached_page = StreamOn(clen, cached).cached_page
    /\ wrote_page_header = StreamOn(clen, cached).wrote_page_header
    /\ wrote_page_body = StreamOn(clen, cached).wrote_page_body
    /\ to_discard = StreamOn(clen, cached).to_discard
    /\ pipeline = StreamOn(clen, cached).pipeline
    /\ status = "ok"
    /\ hist = <<>>
    /\ last = NoCall
    /\ seek_target = 0
    /\ read_since = 0
    /\ db = EmptyDb
    /\ conns = NoConns

\* What byte_to_offset leaves behind: r is what it returned for position.
OffsetReturned(r, position, build) ==
  /\ Becomes(r.f)
  /\ status' = IF r.panicked THEN "panicked" ELSE "ok"
  /\ hist' = Append(hist, [op |-> "byte_to_offset", arg |-> position])
  /\ last' = [op |-> "byte_to_offset", arg |-> position, from |-> build,
              panicked |-> r.panicked, err |-> r.err, ret |-> r.offset,
              out |-> <<>>]
  /\ UNCHANGED <<seek_target, read_since, db, conns>>

\* byte_to_offset(position) is called once on the stream, as
\* test::byte_offset does.
ProbeOffset ==
  \E position \in ProbePositions, build \in Builds :
    /\ hist = <<>>
    /\ OffsetReturned(byte_to_offset_far(Self, position, build), position, build)

OffsetNext == ProbeOffset

SpecOffset == OffsetInit /\ [][OffsetNext]_vars

\* ------------------------------------------ an input without audio

\* An input whose container holds no audio stream: decodebin adds no audio
\* pad, so the pad-added callback makes no encoder and no appsink.
NoAudioInput == [n |-> NumPackets, audio |-> FALSE, clen |-> COMMENT_HEADER_LEN]

\* OpusFile::create on that input: its wait on the bus logs errors and
\* returns Ok(out) when it ends.
NoAudioCreated == Created(PipelineOn(NoAudioInput))

NoAudioInit ==
  /\ byte_offset = NoAudioCreated.byte_offset
  /\ header_data = NoAudioCreated.header_data
  /\ stream = NoAudioCreated.stream
  /\ packet_num = NoAudioCreated.packet_num
  /\ cached_page = NoAudioCreated.cached_page
  /\ wrote_page_header = NoAudioCreated.wrote_page_header
  /\ wrote_page_body = NoAudioCreated.wrote_page_body
  /\ to_discard = NoAudioCreated.to_discard
  /\ pipeline = NoAudioCreated.pipeline
  /\ status = "ok"
  /\ hist = <<>>
  /\ last = NoCall
  /\ seek_target = 0
  /\ read_since = 0
  /\ db = EmptyDb
  /\ conns = NoConns

\* The owner's calls on a stream made of an input without audio.
SpecNoAudio == NoAudioInit /\ [][Next]_vars

\* ------------------------------------------- the owners of the database

\* The database after the migrations, no stream in use.
DbInit == Init

\* User::create
UserCreate ==
  \E u \in UserIds \ db.users, email \in Emails :
    /\ user_create(db, u, email).ret = "Ok"
    /\ db' = user_create(db, u, email).d
    /\ UNCHANGED <<byte_offset, header_data, stream, packet_num, cached_page,
                   wrote_page_header, wrote_page_body, to_discard, pipeline,
                   status, hist, last, seek_target, read_since, conns>>

\* Library::create
LibraryCreate ==
  \E l \in LibraryIds \ db.libraries :
    /\ db' = library_create(db, l)
    /\ UNCHANGED <<byte_offset, header_data, stream, packet_num, cached_page,
                   wrote_page_header, wrote_page_body, to_discard, pipeline,
                   status, hist, last, seek_target, read_since, conns>>

\* A library inserted as the tests do, with no permission row.
InsertLibrary ==
  \E l \in LibraryIds \ db.libraries :
    /\ db' = [db EXCEPT !.libraries = @ \cup {l}]
    /\ UNCHANGED <<byte_offset, header_data, stream, packet_num, cached_page,
                   wrote_page_header, wrote_page_body, to_discard, pipeline,
                   status, hist, last, seek_target, read_since, conns>>

\* A row inserted into library_permissions for a user and a library.
InsertPermission ==
  \E u \in db.users, l \in db.libraries :
    /\ db.library_permissions[<<l, u>>] < MaxPermRows
    /\ db' = permit(db, u, l)
    /\ UNCHANGED <<byte_offset, header_data, stream, packet_num, cached_page,
                   wrote_page_header, wrote_page_body, to_discard, pipeline,
                   status, hist, last, seek_target, read_since, conns>>

\* An audiobook of a library inserted, deleted or not.
InsertAudiobook ==
  \E i \in BookIds, l \in db.libraries, deleted \in BOOLEAN :
    /\ \A b \in db.audiobooks : b.id # i
    /\ db' = [db EXCEPT !.audiobooks =
                @ \cup {[id |-> i, library_id |-> l, location |-> i, deleted |-> deleted]}]
    /\ UNCHANGED <<byte_offset, header_data, stream, packet_num, cached_page,
                   wrote_page_header, wrote_page_body, to_discard, pipeline,
                   status, hist, last, seek_target, read_since, conns>>

DbNext == UserCreate \/ LibraryCreate \/ InsertLibrary \/ InsertPermission \/ InsertAudiobook

SpecDb == DbInit /\ [][DbNext]_vars

\* ------------------------------- streams with other stream headers

\* The numbers of buffers the streamheader field of the caps can hold.
HeaderCounts == 0..3

\* The first k of: ID header, comment header of clen bytes, one more buffer.
SomeHeaders(k, clen) ==
  SubSeq(StreamHeaders(clen) \o << [kind |-> "extra", idx |-> 2, len |-> 30] >>, 1, k)

\* A stream on an input whose caps hold k stream headers.
StreamWith(k, clen) ==
  Created([PipelineOn([n |-> NumPackets, audio |-> TRUE, clen |-> clen])
             EXCEPT !.headers = SomeHeaders(k, clen)])

HeadersInit ==
  \E k \in HeaderCounts, clen \in CommentLens :
    /\ byte_offset = StreamWith(k, clen).byte_offset
    /\ header_data = StreamWith(k, clen).header_data
    /\ stream = StreamWith(k, clen).stream
    /\ packet_num = StreamWith(k, clen).packet_num
    /\ cached_page = StreamWith(k, clen).cached_page
    /\ wrote_page_header = StreamWith(k, clen).wrote_page_header
    /\ wrote_page_body = StreamWith(k, clen).wrote_page_body
    /\ to_discard = StreamWith(k, clen).to_discard
    /\ pipeline = StreamWith(k, clen).pipeline
    /\ status = "ok"
    /\ hist = <<>>
    /\ last = NoCall
    /\ seek_target = 0
    /\ read_since = 0
    /\ db = EmptyDb
    /\ conns = NoConns

\* The owner's first two calls on such a stream.
EarlyRead == Len(hist) < 2 /\ DoRead
EarlySeek == Len(hist) < 2 /\ DoSeek
EarlySeekOther == Len(hist) < 2 /\ DoSeekOther

HeadersNext == EarlyRead \/ EarlySeek \/ EarlySeekOther

SpecHeaders == HeadersInit /\ [][HeadersNext]_vars

\* ------------------------------- requests on the database, concurrent

\* The server with an empty database, the schema with or without the unique
\* constraint on users.email, and no request running.
ServerInit ==
  \E unique \in BOOLEAN :
    /\ byte_offset = create(NumPackets).byte_offset
    /\ header_data = create(NumPackets).header_data
    /\ stream = create(NumPackets).stream
    /\ packet_num = create(NumPackets).packet_num
    /\ cached_page = create(NumPackets).cached_page
    /\ wrote_page_header = create(NumPackets).wrote_page_header
    /\ wrote_page_body = create(NumPackets).wrote_page_body
    /\ to_discard = create(NumPackets).to_discard
    /\ pipeline = create(NumPackets).pipeline
    /\ status = "ok"
    /\ hist = <<>>
    /\ last = NoCall
    /\ seek_target = 0
    /\ read_since = 0
    /\ db = [EmptyDb EXCEPT !.unique_email = unique]
    /\ conns = NoConns

\* User::create on connection c, up to its transaction: the query for a row
\* with the email, and the return of AlreadyExists if there is one.
CreateCheck ==
  \E c \in Conns, email \in Emails :
    /\ conns[c].pc = "idle"
    /\ conns' = [conns EXCEPT ![c] =
                   IF email_taken(db, email)
                   THEN [pc |-> "done", email |-> email, ret |-> "AlreadyExists"]
                   ELSE [pc |-> "checked", email |-> email, ret |-> "none"]]
    /\ UNCHANGED <<byte_offset, header_data, stream, packet_num, cached_page,
                   wrote_page_header, wrote_page_body, to_discard, pipeline,
                   status, hist, last, seek_target, read_since, db>>

\* User::create on connection c, its exclusive transaction and its return.
CreateTransaction ==
  \E c \in Conns, u \in UserIds \ db.users :
    /\ conns[c].pc = "checked"
    /\ db' = user_transaction(db, u, conns[c].email).d
    /\ conns' = [conns EXCEPT ![c].pc = "done",
                              ![c].ret = user_transaction(db, u, conns[c].email).ret]
    /\ UNCHANGED <<byte_offset, header_data, stream, packet_num, cached_page,
                   wrote_page_header, wrote_page_body, to_discard, pipeline,
                   status, hist, last, seek_target, read_since>>

\* Audiobook::ensure_exists_in(relative_path, library, new_book), new_book
\* being a book of the library at that path.
EnsureExistsIn ==
  \E path \in BookIds, l \in db.libraries, i \in BookIds, deleted \in BOOLEAN :
    LET new_book == [id |-> i, library_id |-> l, location |-> path, deleted |-> deleted]
        r == ensure_exists_in(db, path, l, new_book)
    IN /\ Len(hist) < MaxOps
       /\ db' = r.d
       /\ hist' = Append(hist, [op |-> "ensure_exists_in", arg |-> 0])
       /\ last' = [op |-> "ensure_exists_in",
                   arg |-> [relative_path |-> path, library |-> l, new_book |-> new_book],
                   from |-> 0, panicked |-> FALSE,
                   err |-> IF r.ok THEN "none" ELSE "DatabaseError",
                   ret |-> 0, out |-> <<>>]
       /\ UNCHANGED <<byte_offset, header_data, stream, packet_num, cached_page,
                      wrote_page_header, wrote_page_body, to_discard, pipeline,
                      status, seek_target, read_since, conns>>

ServerNext ==
  CreateCheck \/ CreateTransaction \/ LibraryCreate \/ EnsureExistsIn

SpecServer == ServerInit /\ [][ServerNext]_vars

\* ------------------------------------- seek on a failing pipeline

\* The calls of seek on the pipeline that can fail.
SeekFaults == {"pause", "seek", "play"}

\* The positions sought on the failing pipeline.
FaultPositions == {HEADER_LEN + PAGE_BYTES, HEADER_LEN + PAGE_BYTES + 2423}

\* The name under which such a seek is recorded.
FaultOp(fault) ==
  CASE fault = "pause" -> "seek_pause_failed"
    [] fault = "seek" -> "seek_seek_failed"
    [] OTHER -> "seek_play_failed"

\* The owner calls seek(SeekFrom::Start(pos)) and a call on the pipeline fails.
DoSeekFailing ==
  \E pos \in FaultPositions, fault \in SeekFaults :
    /\ status = "ok"
    /\ Len(hist) < MaxOps
    /\ Returned([out |-> <<>>] @@ seek_failing(Self, pos, fault), FaultOp(fault), pos)

FaultNext == DoRead \/ DoSeekFailing

SpecFaults == Init /\ [][FaultNext]_vars

\* ------------------------------- create and the pad-added callback

\* The messages the pipeline posts while create waits: the pipeline's own
\* state change to Playing, another state change, Eos, Error, anything else.
Messages == {"Playing", "StateChanged", "Eos", "Error", "Other"}

\* build_pipeline: filesrc and decodebin, linked, in state Ready; decodebin
\* has found no pad yet, so there is no encoder and no appsink.
PipelineBuilt ==
  [n |-> NumPackets, pos |-> 0, drained |-> FALSE,
   sink |-> FALSE, caps |-> FALSE, headers |-> <<>>,
   pad |-> "pending", bus |-> <<>>, posted |-> 0]

\* The pad-added callback on the audio pad, run by decodebin's streaming
\* thread. how = "ok": the elements are made, added, linked and started;
\* "make": making an element failed, before add_many; "link": add_many was
\* done and a later step failed. An error is logged and nothing else.
pad_added(pl, how) ==
  [pl EXCEPT !.pad = IF how = "ok" THEN "linked" ELSE "failed",
             !.sink = how # "make"]

\* The encoder's first output fixes the caps of the appsink's pad, with the
\* stream headers in their streamheader field.
negotiated(pl) ==
  [pl EXCEPT !.caps = TRUE, !.headers = StreamHeaders(COMMENT_HEADER_LEN)]

\* create's loop over the bus, one message: it ends at the pipeline's state
\* change to Playing and at Eos; an Error is logged.
ends_wait(msg) == msg \in {"Playing", "Eos"}

\* create, before its wait on the bus: the call is recorded in last, out
\* being the messages it has taken.
CreateCall ==
  [op |-> "create", arg |-> 0, from |-> 0, panicked |-> FALSE, err |-> "none",
   ret |-> 0, out |-> <<>>]

CreateInit ==
  /\ byte_offset = Created(PipelineBuilt).byte_offset
  /\ header_data = Created(PipelineBuilt).header_data
  /\ stream = Created(PipelineBuilt).stream
  /\ packet_num = Created(PipelineBuilt).packet_num
  /\ cached_page = Created(PipelineBuilt).cached_page
  /\ wrote_page_header = Created(PipelineBuilt).wrote_page_header
  /\ wrote_page_body = Created(PipelineBuilt).wrote_page_body
  /\ to_discard = Created(PipelineBuilt).to_discard
  /\ pipeline = Created(PipelineBuilt).pipeline
  /\ status = "creating"
  /\ hist = <<>>
  /\ last = CreateCall
  /\ seek_target = 0
  /\ read_since = 0
  /\ db = EmptyDb
  /\ conns = NoConns

\* The pipeline posts a message on its bus.
Post ==
  \E msg \in Messages :
    /\ status = "creating"
    /\ pipeline.posted < MaxMsgs
    /\ pipeline' = [pipeline EXCEPT !.bus = Append(@, msg), !.posted = @ + 1]
    /\ UNCHANGED <<byte_offset, header_data, stream, packet_num, cached_page,
                   wrote_page_header, wrote_page_body, to_discard,
                   status, hist, last, seek_target, read_since, db, conns>>

\* create takes the next message from the bus; when its wait ends it
\* returns Ok(out), and nobody takes messages from the bus any more.
CreateTake ==
  /\ status = "creating"
  /\ pipeline.bus # <<>>
  /\ status' = IF ends_wait(Head(pipeline.bus)) THEN "ok" ELSE "creating"
  /\ last' = [last EXCEPT !.out = Append(@, Head(pipeline.bus))]
  /\ pipeline' = [pipeline EXCEPT
                    !.bus = IF ends_wait(Head(pipeline.bus)) THEN <<>> ELSE Tail(@)]
  /\ UNCHANGED <<byte_offset, header_data, stream, packet_num, cached_page,
                 wrote_page_header, wrote_page_body, to_discard,
                 hist, seek_target, read_since, db, conns>>

\* decodebin finds the audio pad and runs the callback.
PadAdded ==
  \E how \in {"ok", "make", "link"} :
    /\ pipeline.pad = "pending"
    /\ pipeline' = pad_added(pipeline, how)
    /\ UNCHANGED <<byte_offset, header_data, stream, packet_num, cached_page,
                   wrote_page_header, wrote_page_body, to_discard,
                   status, hist, last, seek_target, read_since, db, conns>>

\* The encoder starts and the appsink's pad gets its caps.
Negotiated ==
  /\ pipeline.pad = "linked"
  /\ ~pipeline.caps
  /\ pipeline' = negotiated(pipeline)
  /\ UNCHANGED <<byte_offset, header_data, stream, packet_num, cached_page,
                 wrote_page_header, wrote_page_body, to_discard,
                 status, hist, last, seek_target, read_since, db, conns>>

\* The owner's first call on the stream create returned.
FirstRead == hist = <<>> /\ DoRead
FirstSeek == hist = <<>> /\ DoSeek
FirstSeekOther == hist = <<>> /\ DoSeekOther

CreateNext ==
  Post \/ CreateTake \/ PadAdded \/ Negotiated \/ FirstRead \/ FirstSeek \/ FirstSeekOther

SpecCreate == CreateInit /\ [][CreateNext]_vars

\* ------------------------------------------------------------- claims

\* Bytes [from, from + n) of the canonical output.
CanonSlice(from, n) == SubSeq(CANON, from + 1, from + n)

\* The output offset at which the last read started: the last seek target
\* plus the counts returned before that read.
ReadStart == seek_target + read_since - last.ret

ReadReturned == status = "ok" /\ last.op = "read"

\* The stream was sought once, as its first call, and only read since.
FreshSeek ==
  /\ Len(hist) >= 2
  /\ hist[1].op = "seek"
  /\ \A i \in 2..Len(hist) : hist[i].op = "read"

NoSeek == \A i \in 1..Len(hist) : hist[i].op = "read"

\* The stream was read before it was sought.
UsedSeek ==
  \E i, j \in 1..Len(hist) : i < j /\ hist[i].op = "read" /\ hist[j].op = "seek"

\* C1: on a fresh stream, seek(Start(p)) with p >= header_len followed by
\* reads returns exactly the bytes [p, p + k) of the straight read from 0,
\* every byte compared, page-header fields included.
C1_SeekReadEquivalence ==
  (ReadReturned /\ FreshSeek) => Bytes(last.out) = CanonSlice(ReadStart, last.ret)

\* C2: on one stream, after any sequence of reads and seeks, the bytes read
\* following seek(p) are the canonical output from byte p on; in particular
\* when the seek is made after audio pages were read.
C2_ReadsAreCanonical ==
  (ReadReturned /\ UsedSeek) => Bytes(last.out) = CanonSlice(ReadStart, last.ret)

\* C3: when read returns Ok(n), byte_offset has advanced by exactly n; so
\* byte_offset is the target of the last successful seek (0 if none) plus the
\* sum of the counts returned by the reads since.
C3_ByteOffsetAdvances ==
  status = "ok" =>
    /\ byte_offset = seek_target + read_since
    /\ last.op = "read" => byte_offset = last.from + last.ret

C3_Witness ==
  /\ ReadReturned
  /\ last.ret > 0
  /\ seek_target > HEADER_LEN
  /\ Len(hist) = 3

\* C4: read with a non-empty buffer returns Ok(0) only at the true end of the
\* output: no page is cached, the source has reported end-of-stream, and no
\* further read returns a byte.
C4_ZeroOnlyAtEnd ==
  (ReadReturned /\ last.arg > 0 /\ last.ret = 0) =>
    /\ ~cached_page.some
    /\ pipeline.drained /\ pipeline.pos = pipeline.n
    /\ \A e \in BOOLEAN : read(Self, WHOLE, e).ret = 0

C4_Witness ==
  /\ ReadReturned /\ last.arg > 0 /\ last.ret = 0
  /\ byte_offset = Len(CANON)

\* C5: a single read(buf) returns exactly min(|buf|, number of output bytes
\* remaining from byte_offset).
C5_ReadFillsBuffer ==
  (last.op = "read" /\ last.from <= Len(CANON)) =>
    /\ ~last.panicked
    /\ last.ret = Min(last.arg, Len(CANON) - last.from)

\* C6: without seeks, the bytes successive reads return are the same byte
\* sequence for every choice of read buffer sizes, sizes that end inside the
\* stream header included: every read returns, and returns the next bytes of
\* the canonical output.
C6_BufferSizeIndependent ==
  NoSeek =>
    /\ status = "ok"
    /\ last.op = "read" => Bytes(last.out) = CanonSlice(ReadStart, last.ret)

\* C7: seek(Start(p)) with p < header_len returns an error to the caller; it
\* does not panic.
C7_SeekIntoHeaderIsError ==
  (last.op = "seek" /\ last.arg < HEADER_LEN) => ~last.panicked

\* C8: seek with SeekFrom::Current or SeekFrom::End returns an error to the
\* caller (no panic) and leaves the stream state unchanged.
C8_SeekNotSupportedIsError ==
  last.op = "seek_other" => ~last.panicked

\* C9: after a successful seek(Start(p)), p >= header_len, the call has
\* returned p and byte_offset = p, packet_num = ((p - header_len) div 4213)
\* * 26, to_discard = (p - header_len) mod 4213, no page is cached and the
\* in-page counters are 0.
C9_SeekState ==
  (last.op = "seek" /\ ~last.panicked) =>
    /\ last.arg >= Len(header_data.v)
    /\ last.ret = last.arg
    /\ byte_offset = last.arg
    /\ packet_num = ((last.arg - Len(header_data.v)) \div 4213) * 26
    /\ to_discard = (last.arg - Len(header_data.v)) % 4213
    /\ ~cached_page.some
    /\ wrote_page_header = 0
    /\ wrote_page_body = 0

\* A seek into the body of the second audio page, made while a page of the
\* first 400 bytes read was still cached.
C9_Witness ==
  /\ Len(hist) = 2
  /\ hist[1] = [op |-> "read", arg |-> 400]
  /\ last.op = "seek" /\ ~last.panicked
  /\ last.arg = HEADER_LEN + PAGE_BYTES + 2423
  /\ packet_num = 26 /\ to_discard = 2423

\* C10: seek(p) made right after a successful seek(p) changes nothing: the
\* stream is in the same state, and so reads the same, as after one seek(p).
C10_SeekIdempotent ==
  [][(/\ last.op = "seek" /\ ~last.panicked
      /\ last'.op = "seek" /\ last'.arg = last.arg
      /\ Len(hist') = Len(hist) + 1)
     => (/\ file_vars' = file_vars
         /\ ~last'.panicked
         /\ last'.ret = last.ret)]_vars

\* The same successful seek, into a page body, made twice after a read.
C10_Witness ==
  /\ Len(hist) = 3
  /\ hist[1].op = "read"
  /\ hist[2] = hist[3]
  /\ last.op = "seek" /\ ~last.panicked
  /\ to_discard > 0

\* byte_to_offset was called, on its own, and the stream's header is cached.
OffsetCalled == last.op = "byte_to_offset" /\ header_data.some

\* The number of full pages an Offset stands for.
PagesOf(offset) == WDivMod(offset.packet, 26)

\* C11: for every position p >= header_len byte_to_offset returns
\* millis = pages * 520, packet = pages * 26 and extra_bytes < 4213 with
\* pages * 4213 + header_len + extra_bytes = p, that is
\* pages = (p - header_len) div 4213 and extra_bytes = (p - header_len) mod 4213.
C11_OffsetFormula ==
  (OffsetCalled /\ ~WLess(last.arg, Len(header_data.v))) =>
    /\ ~last.panicked
    /\ last.ret.extra_bytes < 4213
    /\ PagesOf(last.ret).r = 0
    /\ last.ret.millis = WMulAdd(PagesOf(last.ret).q, 520, 0)
    /\ WMulAdd(PagesOf(last.ret).q, 4213,
               Len(header_data.v) + last.ret.extra_bytes) = last.arg

\* C12 as the spec has it: for p = 150_000 on an input with header_len = 175,
\* the offset is {millis: 18_200, packet: 910, extra_bytes: 2423} and
\* (910 / 26) * 4213 + 175 + 2423 = p.
C12_OffsetAt150000_H175 ==
  (OffsetCalled /\ last.arg = Wide(150000) /\ Len(header_data.v) = 175) =>
    /\ ~last.panicked
    /\ last.ret = [millis |-> Wide(18200), packet |-> Wide(910), extra_bytes |-> 2423]
    /\ (910 \div 26) * 4213 + 175 + 2423 = 150000

\* C12, amended: for p = 150_000 on an input with header_len = 122 (the
\* inputs of the tests), the offset is {millis: 18_200, packet: 910,
\* extra_bytes: 2423} and (910 / 26) * 4213 + 122 + 2423 = p.
C12_OffsetAt150000 ==
  (OffsetCalled /\ last.arg = Wide(150000) /\ Len(header_data.v) = 122) =>
    /\ ~last.panicked
    /\ last.ret = [millis |-> Wide(18200), packet |-> Wide(910), extra_bytes |-> 2423]
    /\ (910 \div 26) * 4213 + 122 + 2423 = 150000

C12_Witness ==
  /\ OffsetCalled /\ ~last.panicked
  /\ last.arg = Wide(150000)
  /\ Len(header_data.v) = 122

\* The bytes of the last read that lie in the first four bytes of a page
\* slot, the slots being the 4213-byte intervals from header_len on, are the
\* bytes of "OggS".
MagicAtSlots ==
  \A i \in 1..last.ret :
    LET o == ReadStart + i - 1 - HEADER_LEN
    IN (o >= 0 /\ o % 4213 < 4) => Bytes(last.out)[i] = OGGS[(o % 4213) + 1]

\* C13: in a straight read every audio page starts at an output offset
\* header_len + k * 4213: the bytes read at offsets header_len + k * 4213 + j,
\* j < 4, are "OggS"; so a 4-byte read after exactly header_len + k * 4213
\* bytes returns "OggS", and a 5-byte read after one byte less returns a byte
\* of page k - 1 and then "OggS".
C13_PagesStartAtSlots ==
  (NoSeek /\ ReadReturned) =>
    /\ MagicAtSlots
    /\ (last.arg = 4 /\ last.ret = 4 /\ ReadStart >= HEADER_LEN
        /\ (ReadStart - HEADER_LEN) % 4213 = 0)
       => Bytes(last.out) = OGGS
    /\ (last.arg = 5 /\ last.ret = 5 /\ ReadStart >= HEADER_LEN
        /\ (ReadStart - HEADER_LEN) % 4213 = 4212)
       => /\ SubSeq(Bytes(last.out), 2, 5) = OGGS
          /\ Bytes(last.out)[1][1] = 1

\* test::hit_page_boundary: 4 bytes read after header_len + 4213 bytes.
C13_Witness ==
  /\ hist = <<[op |-> "read", arg |-> HEADER_LEN + PAGE_BYTES],
              [op |-> "read", arg |-> 4]>>
  /\ ReadReturned /\ last.ret = 4
  /\ ReadStart = HEADER_LEN + 4213

\* test::just_before_page_boundary: 5 bytes read after one byte less.
C13_WitnessBefore ==
  /\ hist = <<[op |-> "read", arg |-> HEADER_LEN + PAGE_BYTES - 1],
              [op |-> "read", arg |-> 5]>>
  /\ ReadReturned /\ last.ret = 5
  /\ ReadStart = HEADER_LEN + 4212

\* The last call is a read that returned, made right after a seek that
\* returned.
ReadAfterSeek ==
  /\ ReadReturned
  /\ Len(hist) >= 2
  /\ hist[Len(hist) - 1].op = "seek"
  /\ read_since = last.ret

\* Where in its page slot the last seek went.
SeekSlotOffset == (seek_target - HEADER_LEN) % 4213

\* C14: after seek(header_len + k * 4213) to_discard is 0 and the next bytes
\* read are the first bytes, "OggS", of the header of the page then fetched;
\* after seek(header_len + k * 4213 - 1), k >= 1, to_discard is 4212 and the
\* next read skips the 53 header bytes and 4159 body bytes of the page then
\* fetched, a full page, emits its one last byte and then "OggS" of the next
\* page; on a fresh stream that byte is the last byte of canonical page k - 1.
C14_SeekBoundary ==
  /\ (last.op = "seek" /\ ~last.panicked /\ last.err = "none") =>
       /\ SeekSlotOffset = 0 => to_discard = 0
       /\ SeekSlotOffset = 4212 => to_discard = 4212
  /\ (ReadAfterSeek /\ SeekSlotOffset = 0 /\ last.ret >= 4) =>
       /\ SubSeq(Bytes(last.out), 1, 4) = OGGS
       /\ last.out[1].src = "header" /\ last.out[1].lo = 0
  /\ (ReadAfterSeek /\ SeekSlotOffset = 4212 /\ last.ret >= 5) =>
       /\ last.out[1].src = "body"
       /\ last.out[1].lo = 4159 /\ last.out[1].hi = 4160
       /\ HeaderLen(last.out[1].pg) = 53
       /\ SubSeq(Bytes(last.out), 2, 5) = OGGS
       /\ last.out[2].src = "header" /\ last.out[2].lo = 0
       /\ to_discard = 0
       /\ FreshSeek => Bytes(last.out)[1] = CANON[seek_target + 1]

\* The boundary behaviour of C14 on the streams of test::hit_page_boundary
\* and test::just_before_page_boundary: sought once, as the first call.
SeekBoundaryOnFresh ==
  (Len(hist) >= 1 /\ Len(hist) <= 2 /\ hist[1].op = "seek") => C14_SeekBoundary

\* A full audio page: 53 header bytes, 4160 body bytes, 26 packets.
FullPage(pg) == HeaderLen(pg) = 53 /\ BodyLen(pg) = 4160 /\ Len(pg.pkts) = 26

\* The packets the stream has put out in pages by the end of a straight
\* read: those pulled and not left behind in the framer.
PacketsOut == pipeline.pos - Len(stream.lacing)

\* The size of a short page of r packets (0 if there is none).
ShortPageLen(r) == IF r = 0 THEN 0 ELSE PAGE_FIXED_HEADER + r + r * spec.packet_size

\* The straight read is at its end: a read into a non-empty buffer returned 0.
StraightEOF == NoSeek /\ ReadReturned /\ last.arg > 0 /\ last.ret = 0

\* C15: in a straight read every audio page emitted is 53 header bytes plus
\* 4160 body bytes, except a short last page, after which nothing is
\* emitted; so at EOF the bytes emitted are header_len + n * (53 + 4160) +
\* last_page_len, n the number of full pages and last_page_len the size of
\* the short last page.
C15_StraightReadLength ==
  /\ (NoSeek /\ ReadReturned) =>
       \A i \in 1..Len(last.out) :
         last.out[i].src # "raw" =>
           \/ FullPage(last.out[i].pg)
           \/ /\ last.out[i].pg = last.out[Len(last.out)].pg
              /\ pipeline.pos = pipeline.n /\ stream.lacing = <<>>
              /\ BodyLen(last.out[i].pg) < 4160
  /\ StraightEOF =>
       byte_offset = HEADER_LEN + (PacketsOut \div 26) * (53 + 4160)
                     + ShortPageLen(PacketsOut % 26)

\* A straight read to EOF that ended with a short last page.
C15_Witness ==
  /\ StraightEOF
  /\ PacketsOut % 26 > 0
  /\ PacketsOut \div 26 = 2

\* The pages of the stream header: the ID header page and the comment page.
HeaderPageFlags == <<HEADER[6], HEADER[PAGE_FIXED_HEADER + 1 + ID_HEADER_LEN + 6]>>

\* The last read emitted the end of what the stream will ever emit: the
\* source is at its end and no page is left cached.
EmittedLastPage ==
  /\ NoSeek /\ ReadReturned
  /\ pipeline.drained /\ ~cached_page.some
  /\ Len(last.out) > 0
  /\ last.out[Len(last.out)].src # "raw"

\* C16: in a straight read the BOS flag is on the first page, the page of the
\* ID header, and on no other; and the last page emitted before read returns
\* 0 has the EOS flag, whenever the sink's end-of-stream is signalled.
C16_BosAndEos ==
  /\ HeaderPageFlags = << <<0, 2>>, <<0, 0>> >>
  /\ (NoSeek /\ ReadReturned) =>
       \A i \in 1..Len(last.out) :
         last.out[i].src # "raw" => last.out[i].pg.flags \in {0, 4}
  /\ EmittedLastPage => last.out[Len(last.out)].pg.flags = 4

\* What the caller of read sees: how the call ended, the count, the bytes.
ReadOutcome(f, buflen, e) ==
  LET r == read(f, buflen, e)
  IN  [panicked |-> r.panicked, err |-> r.err, ret |-> r.ret, data |-> Bytes(r.out)]

\* C17: two streams on the same input that went through the same calls are
\* in the same state, so they differ at the next read only by what the input
\* does not fix, the moment the sink signals the end of the stream; the claim
\* is that the next read returns the same count and bytes in both.
C17_Deterministic ==
  status = "ok" =>
    \A buflen \in BufSizes :
      ReadOutcome(Self, buflen, TRUE) = ReadOutcome(Self, buflen, FALSE)

\* The first page of the output as the test read_header expects it; the four
\* bytes from index 23 on are the page's checksum.
header_target ==
  LitBytes(<<79, 103, 103, 83, 0, 2, 0, 0, 0, 0, 0, 0, 0, 0, 83, 19, 240, 0, 0, 0, 0, 0,
             171, 204, 149, 10, 1, 19, 79, 112, 117, 115, 72, 101, 97, 100, 1, 2, 56, 1,
             64, 31, 0, 0, 0, 0, 0>>)

\* A read that returned and had started inside the stream header.
ReadFromHeader == ReadReturned /\ last.from < HEADER_LEN

\* C18: a read that starts inside the stream header emits first the cached
\* header bytes from byte_offset on, all of them before any byte of an audio
\* page; the first page of the header starts with "OggS", has the BOS flag,
\* granule position 0, serial 0xF01353 and holds the ID header packet alone.
C18_HeaderFirst ==
  /\ ReadFromHeader =>
       /\ header_data = Some(HEADER)
       /\ last.ret >= HEADER_LEN - last.from
       /\ last.out[1].src = "raw"
       /\ \A i \in 2..Len(last.out) : last.out[i].src # "raw"
       /\ ChunkBytes(last.out[1]) = SubSeq(header_data.v, last.from + 1, HEADER_LEN)
  /\ \A i \in 1..Len(header_target) : i \in 23..26 \/ HEADER[i] = header_target[i]
  /\ SubSeq(HEADER, 1, 4) = OGGS
  /\ HEADER[6] = <<0, 2>>
  /\ \A i \in 7..14 : HEADER[i] = <<0, 0>>
  /\ HEADER[15] = <<0, 83>> /\ HEADER[16] = <<0, 19>> /\ HEADER[17] = <<0, 240>>
  /\ HEADER[18] = <<0, 0>>
  /\ HEADER[27] = <<0, 1>> /\ HEADER[28] = <<0, ID_HEADER_LEN>>
  /\ SubSeq(HEADER, 29, 28 + ID_HEADER_LEN) = ID_HEADER
  /\ SubSeq(HEADER, 29 + ID_HEADER_LEN, 32 + ID_HEADER_LEN) = OGGS

\* A read of the fresh stream returned the header and audio bytes after it.
C18_Witness == ReadFromHeader /\ last.ret > HEADER_LEN /\ Len(last.out) > 1

\* Exhausted: the last call was a read, and it returned 0.
Exhausted == ReadReturned /\ last.arg > 0 /\ last.ret = 0

\* The next read of the stream as it is returns 0 and leaves byte_offset.
StaysExhausted(buflen, e) ==
  LET r == read(Self, buflen, e)
  IN  ~r.panicked /\ r.err = "none" /\ r.ret = 0 /\ r.f.byte_offset = byte_offset

\* A read after what seek (s) returned gives the canonical bytes from p on.
CanonicalAfter(s, p, buflen, e) ==
  LET r == read(s.f, buflen, e)
  IN  /\ ~s.panicked /\ s.err = "none" /\ s.ret = p
      /\ ~r.panicked /\ r.err = "none" /\ r.ret > 0
      /\ Bytes(r.out) = CanonSlice(p, r.ret)

\* seek(p) on the stream as it is, then a read.
Revives(p, buflen, e) == CanonicalAfter(seek(Self, "Start", p), p, buflen, e)

\* C19: once a read has returned 0, every further read returns 0 and leaves
\* byte_offset as it is, and a seek to a position p, header_len <= p < total
\* length, makes the following read return the canonical bytes from p on.
C19_ExhaustedUntilSeek ==
  Exhausted =>
    /\ \A buflen \in BufSizes, e \in BOOLEAN : StaysExhausted(buflen, e)
    /\ \A p \in SeekPositions, buflen \in BufSizes, e \in BOOLEAN :
         (HEADER_LEN <= p /\ p < Len(CANON)) => Revives(p, buflen, e)

\* The two parts of C19 apart, for buffers of at least 2 bytes.
ExhaustedStays ==
  Exhausted => \A buflen \in BufSizes \ {1}, e \in BOOLEAN : StaysExhausted(buflen, e)
ExhaustedRevives ==
  Exhausted =>
    \A p \in SeekPositions, buflen \in BufSizes \ {1}, e \in BOOLEAN :
      (HEADER_LEN <= p /\ p < Len(CANON)) => Revives(p, buflen, e)

\* The stream was made of an input without audio and has been used once.
NoAudioFirstUse == ~pipeline.sink /\ Len(hist) = 1

\* C20: on an input without an audio stream the first call on the stream
\* returns the error NoAudioStream; it does not panic.
C20_NoAudioStream ==
  NoAudioFirstUse => status = "ok" /\ last.err = "NoAudioStream"

\* What the first call does on such a stream: read panics, seek(Start(p))
\* returns an io::Error of kind Other with byte_offset already set to p,
\* the other seeks panic.
NoAudioFirstUseIs ==
  NoAudioFirstUse =>
    CASE last.op = "read" -> status = "panicked" /\ byte_offset = 0
      [] last.op = "seek" -> status = "ok" /\ last.err = "Other" /\ byte_offset = last.arg
      [] OTHER -> status = "panicked"

\* create is the last call, and it has taken an Error message from the bus.
CreateSawError ==
  last.op = "create" /\ \E i \in 1..Len(last.out) : last.out[i] = "Error"

\* C21: once create has taken an Error message from the bus it has ended
\* its wait and returned the error DecoderFailure.
C21_ErrorEndsCreate ==
  CreateSawError => status # "creating" /\ last.err = "DecoderFailure"

\* What create does: whenever its wait ends it returns Ok, whatever it took
\* from the bus, and the wait ends only at Playing or Eos.
CreateReturnsOk ==
  (last.op = "create" /\ status # "creating") =>
    /\ status = "ok" /\ last.err = "none"
    /\ ends_wait(last.out[Len(last.out)])

\* create has returned Ok and the stream has not been used yet.
CreateReturned == last.op = "create" /\ status = "ok"

\* C22: once create has returned Ok the appsink exists and its pad carries
\* the stream headers: get_opus_header_data does not fail with InvalidState.
C22_SinkReadyAfterCreate ==
  CreateReturned =>
    /\ get_sink(Self).ok
    /\ get_opus_header_data(Self).err # "InvalidState"

\* The first read of a stream whose appsink or caps are not there yet
\* panics, the first seek returns an error of kind Other.
NotReadyFirstUse ==
  (Len(hist) = 1 /\ ~pipeline.caps /\ pipeline.pad \in {"pending", "linked"}) =>
    CASE last.op = "seek" -> status = "ok" /\ last.err = "Other"
      [] OTHER -> status = "panicked"

\* The last call was a read that could not obtain the stream header: the
\* header is still not cached after it.
ReadWithoutHeader == last.op = "read" /\ ~header_data.some

\* C23: a read that fails to obtain the stream header (the appsink is
\* missing) returns an error of kind Other to the caller; it does not panic.
C23_ReadFailureIsOther ==
  ReadWithoutHeader => status = "ok" /\ last.err = "Other"

\* The last call was a seek during which a call on the pipeline failed.
SeekFailed == last.op \in {FaultOp(fault) : fault \in SeekFaults}

\* C24: a seek during which pausing, repositioning or resuming the pipeline
\* failed returns an error of kind Other; it does not return Ok(p).
C24_SeekFailureIsOther ==
  SeekFailed => status = "ok" /\ last.err = "Other"

\* The failures of set_state are returned.
SetStateFailureIsOther ==
  (SeekFailed /\ last.op # FaultOp("seek")) => status = "ok" /\ last.err = "Other"

\* The pad-added callback has failed, create has returned and the stream
\* has not been used yet.
CallbackFailed == pipeline.pad = "failed" /\ status = "ok" /\ hist = <<>>

\* How a read of the stream as it is ends.
ReadEnds(buflen, e, panicked, err) ==
  LET r == read(Self, buflen, e) IN r.panicked = panicked /\ r.err = err

\* C25: after an error in the pad-added callback the next read returns the
\* stored error DecoderFailure.
C25_CallbackErrorLatched ==
  CallbackFailed =>
    \A buflen \in BufSizes, e \in BOOLEAN : ReadEnds(buflen, e, FALSE, "DecoderFailure")

\* What the next read does instead: it panics.
CallbackErrorPanicsRead ==
  CallbackFailed => \A buflen \in BufSizes, e \in BOOLEAN : ReadEnds(buflen, e, TRUE, "none")

\* The elements of a sequence.
Elements(q) == {q[i] : i \in 1..Len(q)}

\* The user has a permission row for the library.
Permitted(u, l) == \E r \in PermRows(db) : r.library_id = l /\ r.user_id = u

\* C26: accessible_audiobooks returns exactly the audiobooks that are not
\* deleted and belong to a library the user has a permission row for, and
\* accessible_libraries exactly the libraries the user has a row for.
C26_OnlyAccessible ==
  \A u \in db.users :
    /\ Elements(accessible_audiobooks(db, u)) =
         {b \in db.audiobooks : ~b.deleted /\ Permitted(u, b.library_id)}
    /\ DOMAIN accessible_libraries(db, u) = {l \in db.libraries : Permitted(u, l)}

\* The case of the test: a user with a book in a library they may access and
\* a book in a library they may not.
C26_Witness ==
  \E u \in db.users :
    /\ Len(accessible_audiobooks(db, u)) = 1
    /\ \E b \in db.audiobooks : ~b.deleted /\ ~Permitted(u, b.library_id)
    /\ \E l \in db.libraries : ~Permitted(u, l)

\* The packets of a page are all audio packets.
AudioOnly(pg) == \A i \in 1..Len(pg.pkts) : pg.pkts[i].kind = "audio"

\* The header packets are in the header cache and nowhere else: not in the
\* framer, not in the cached page, not in a page the last read emitted; the
\* two header pages are pages 0 and 1 of the framer.
HeaderPacketsOnce ==
  /\ \A i \in 1..Len(stream.lacing) : stream.lacing[i].pk.kind = "audio"
  /\ cached_page.some => AudioOnly(cached_page.v) /\ cached_page.v.pageno >= 2
  /\ \A i \in 1..Len(last.out) :
       last.out[i].src # "raw" => AudioOnly(last.out[i].pg) /\ last.out[i].pg.pageno >= 2
  /\ stream.pageno = 0 <=> ~header_data.some

\* C27: the header cache is written once: a call that finds it empty builds
\* and stores it, no call changes it afterwards, and the header packets are
\* given to the framer only by that one build.
C27_HeaderWriteOnce ==
  /\ []HeaderPacketsOnce
  /\ [][/\ header_data.some => header_data' = header_data
        /\ (~header_data.some /\ last'.op \in {"read", "seek"}) => header_data' = Some(HEADER)
       ]_vars

\* The cache has served a second call: a read that returned bytes.
C27_Witness ==
  header_data.some /\ Len(hist) >= 2 /\ ReadReturned /\ last.ret > 0

\* A page of the stream header: one header packet alone, granule position 0.
HeaderPage(pk, pageno, flags) ==
  [flags |-> flags, granule |-> 0, pageno |-> pageno, pkts |-> <<pk>>]

\* header + body of a page, as build_header_data appends them.
PageBytes(pg) == PageHeader(pg) \o PageBody(pg)

\* The ID header in page 0, with the BOS flag, then the comment header in
\* page 1.
FramedHeaders(headers) ==
  PageBytes(HeaderPage(headers[1], 0, 2)) \o PageBytes(HeaderPage(headers[2], 1, 0))

\* C28: once a call has asked for the header, the cache is the page of the
\* ID header, flushed alone with the BOS flag, followed by the page of the
\* comment header, header and body each, and the framer is left empty.
C28_HeaderFraming ==
  hist # <<>> =>
    /\ header_data = Some(FramedHeaders(pipeline.headers))
    /\ Len(header_data.v) = 2 * (PAGE_FIXED_HEADER + 1) + ID_HEADER_LEN + pipeline.headers[2].len
    /\ stream.lacing = <<>> /\ stream.b_o_s /\ stream.pageno = 2

\* The header was asked for on an input whose comment header is not the
\* usual one.
C28_Witness ==
  hist # <<>> /\ header_data.some /\ pipeline.headers[2].len # COMMENT_HEADER_LEN

\* The encoder supplied a number of stream headers other than two.
NotTwoHeaders == Len(pipeline.headers) # 2

\* C29: when the encoder supplies a number of stream headers other than
\* two, building the header fails with NoStreamHeader: no call builds and
\* stores a header cache.
C29_TwoHeadersOrFail ==
  (NotTwoHeaders /\ last.op \in {"read", "seek"}) =>
    /\ ~header_data.some
    /\ build_header_data(Self).err = "NoStreamHeader"

\* With no stream header the build fails with NoStreamHeader; with one or
\* three it returns the pages of the headers it was given.
HeaderCountUnchecked ==
  /\ Len(pipeline.headers) = 0 =>
       ~header_data.some /\ build_header_data(Self).err = "NoStreamHeader"
  /\ (Len(pipeline.headers) \in {1, 3} /\ last.op \in {"read", "seek"}) =>
       /\ header_data.some
       /\ Len(header_data.v) = Len(pipeline.headers) * (PAGE_FIXED_HEADER + 1)
                                + SumLen(pipeline.headers)

\* Samples per packet: RATE / (1000 / FRAME_SIZE).
GRANULE_STEP == RATE \div (1000 \div FRAME_SIZE)

\* Packets per full page.
PAGE_PACKETS == spec.page_body_size \div spec.packet_size

\* The packet of the source with index k carries granule position
\* (k + 1) * 960 in the framer.
GranuleOf(k) == (k + 1) * GRANULE_STEP

\* A page as a straight read emits it: consecutive packets of the source
\* from a multiple of 26 on, its granule position that of its last packet.
PageAsStraight(pg) ==
  /\ pg.pkts[1].idx % PAGE_PACKETS = 0
  /\ \A i \in 1..Len(pg.pkts) : pg.pkts[i].idx = pg.pkts[1].idx + i - 1
  /\ pg.granule = GranuleOf(pg.pkts[Len(pg.pkts)].idx)

\* Each packet in the framer has the granule position of its number, and
\* the next packet of the source will get the number packet_num.
PacketRule ==
  /\ \A i \in 1..Len(stream.lacing) :
       stream.lacing[i].granulepos = GranuleOf(stream.lacing[i].pk.idx)
  /\ (header_data.some /\ pipeline.pos < pipeline.n) => packet_num = pipeline.pos

\* C30: the packet submitted while packet_num = k has granule position
\* (k + 1) * 960, in straight reads and after a seek, where k starts at
\* ((p - header_len) div 4213) * 26; so every page a read emits, after a
\* seek too, is the page of the straight read with its granule position.
C30_GranuleRule ==
  /\ PacketRule
  /\ ReadReturned =>
       \A i \in 1..Len(last.out) :
         last.out[i].src # "raw" => PageAsStraight(last.out[i].pg)

\* The rule for the reads of a stream that was not sought, and for each
\* packet in the framer.
GranuleRuleStraight ==
  /\ PacketRule
  /\ (NoSeek /\ ReadReturned) =>
       \A i \in 1..Len(last.out) :
         last.out[i].src # "raw" => PageAsStraight(last.out[i].pg)

\* The last call was a seek(Start(p)) that returned Ok(p).
SeekReturned == status = "ok" /\ last.op = "seek" /\ last.err = "none"

\* C31: after seek has returned the framer holds no packet and no
\* end-of-stream latch from before the seek, and its page counter counts no
\* audio page emitted before it (the two header pages at most).
C31_SeekResetsFramer ==
  SeekReturned =>
    /\ stream.lacing = <<>>
    /\ ~stream.e_o_s
    /\ stream.pageno <= 2

\* What seek does to the framer: nothing, but for the header pages the
\* first call builds.
SeekKeepsFramer ==
  [][(last'.op = "seek" /\ header_data.some) => stream' = stream]_vars

\* The last call was a seek that returned an error.
SeekErred == status = "ok" /\ last.op \in {"seek", FaultOp("pause"), FaultOp("play")}
             /\ last.err = "Other"

\* C32: byte_offset is assigned as the last step of seek, after every other
\* step has succeeded: a seek that returns an error leaves byte_offset as it
\* was when the call began.
C32_ByteOffsetAssignedLast ==
  SeekErred => byte_offset = last.from

\* The order of the other steps: a seek that fails at set_state(Paused) has
\* not touched the page cursor, one that fails at set_state(Playing) has
\* reset it, and both have assigned byte_offset already.
SeekStepOrder ==
  [][/\ last'.op = FaultOp("pause") =>
         /\ byte_offset' = last'.arg
         /\ <<to_discard', packet_num', cached_page', wrote_page_header',
              wrote_page_body'>>
            = <<to_discard, packet_num, cached_page, wrote_page_header,
                wrote_page_body>>
     /\ (last'.op = FaultOp("play") /\ ~last'.panicked) =>
         /\ byte_offset' = last'.arg
         /\ cached_page' = None(NoPage)
         /\ wrote_page_header' = 0 /\ wrote_page_body' = 0
         /\ to_discard' = (last'.arg - HEADER_LEN) % PAGE_BYTES]_vars

\* The bytes of the cached page that are discarded or written, and its size.
CursorSum(f) == f.to_discard + f.wrote_page_header + f.wrote_page_body
CursorFits(f) ==
  f.cached_page.some =>
    CursorSum(f) <= HeaderLen(f.cached_page.v) + BodyLen(f.cached_page.v)

\* The stream as read_from_pages has it right after it cached the next page
\* (the stream itself when there is no next page).
AfterFetch(f, e) ==
  LET g == get_next_page(f, e)
  IN IF f.cached_page.some \/ ~g.page.some THEN f ELSE CachePage(g)

\* Seek targets in the slot of the final page: at the end of the output and
\* beyond it.
TailPositions == {Len(CANON), Len(CANON) + 1, HEADER_LEN + 3 * PAGE_BYTES - 1}

\* The stream after seek(Start(pos)) from the state it is in.
Sought(pos) == seek(Self, "Start", pos)

\* C33: after a seek, whenever a page is cached, to_discard plus the in-page
\* counters is at most the size of that page: when the call has returned and
\* when the next read has just cached the page the seek led to, for targets
\* in the final short page and at or beyond the end of the output too.
C33_DiscardWithinPage ==
  status = "ok" =>
    \A pos \in TailPositions, e \in BOOLEAN :
      (~Sought(pos).panicked /\ Sought(pos).err = "none") =>
        /\ CursorFits(Sought(pos).f)
        /\ CursorFits(AfterFetch(Sought(pos).f, e))

\* The same for the states between calls: there the cursor fits.
CursorFitsBetweenCalls == CursorFits(Self)

\* The same for targets in a page of full size on a stream not read before.
CursorFitsFullPages ==
  hist = <<>> =>
    \A pos \in {HEADER_LEN, HEADER_LEN + 20, HEADER_LEN + PAGE_BYTES - 1,
                 HEADER_LEN + PAGE_BYTES + 2423}, e \in BOOLEAN :
      CursorFits(AfterFetch(Sought(pos).f, e))

\* Where in its page the chunk c starts, counting the page header first.
StartInPage(c) == IF c.src = "header" THEN c.lo ELSE HeaderLen(c.pg) + c.lo

\* A read that follows a seek with e bytes to discard and writes something
\* writes byte e of its page first and leaves nothing to discard.
DiscardExact ==
  (SeekReturned /\ last'.op = "read" /\ last'.out # <<>>) =>
    /\ StartInPage(last'.out[1]) = to_discard
    /\ to_discard' = 0

\* Reads only lower to_discard, and leave it 0 when it is 0.
DiscardDecreases ==
  last'.op = "read" => to_discard' <= to_discard

\* C34: after seek sets to_discard = e, the first byte the next read writes
\* is byte e of the next page, the e bytes before it being skipped; reads
\* only decrease to_discard, and once it is 0 it stays 0 until the next seek.
C34_DiscardExact ==
  [][DiscardExact /\ DiscardDecreases]_vars

\* The part on the counter alone.
DiscardMonotone ==
  [][DiscardDecreases]_vars

\* The same when the framer holds nothing from before the seek.
DiscardExactCleanFramer ==
  [][((stream.lacing = <<>> /\ ~stream.e_o_s) => DiscardExact)
     /\ DiscardDecreases]_vars

\* C35: read does not panic, whatever the length of the buffer and wherever
\* byte_offset is: every read returns to its caller.
C35_ReadNeverPanics ==
  last.op = "read" => ~last.panicked

\* The header bytes a read of arg bytes from byte offset from writes.
HeaderBytesOf(from, arg) ==
  IF from < HEADER_LEN THEN Min(arg, HEADER_LEN - from) ELSE 0

\* When read panics: started inside the header with a buffer of at most
\* twice the header bytes it writes, or reached the pages with fewer than
\* two bytes of buffer left; a read into an empty buffer always does.
ReadPanicsWhen ==
  /\ last.op = "read" =>
       LET wh == HeaderBytesOf(last.from, last.arg)
           rest == last.arg - wh
       IN last.panicked <=>
            \/ last.from < HEADER_LEN /\ wh >= rest
            \/ last.from + wh >= HEADER_LEN /\ rest < 2
  /\ status = "ok" => ReadEnds(0, TRUE, TRUE, "none")

\* C36: when a straight read has returned 0, every packet of the source has
\* been pulled and none is left in the framer: each is in a page emitted
\* before, whenever the sink's eos property turned true.
C36_NoPacketLost ==
  StraightEOF => pipeline.pos = pipeline.n /\ stream.lacing = <<>>

\* Nothing is lost when the property was true right after the last pull, and
\* otherwise what is lost is the packets after the last full page.
LostOnlyWhenEosLate ==
  StraightEOF =>
    /\ pipeline.pos = pipeline.n
    /\ stream.e_o_s => stream.lacing = <<>>
    /\ ~stream.e_o_s =>
         Len(stream.lacing) = NumPackets % (spec.page_body_size \div spec.packet_size)

\* The pages a position stands for, and byte_to_offset's products without a
\* width.
PagesAt(position, header_len) == WDivMod(WSub(position, header_len), PAGE_BYTES).q

\* The granule position of the first packet pulled after a seek that took
\* its packet number from the last offset.
FirstGranule == granulepos_far(last.ret.packet, last.from)

\* C37: for every position sought, pages * 520 and pages * 26 in
\* byte_to_offset and packet_num * 960 in the get_next_page that follows fit
\* in 32 bits: nothing panics and the values are the products.
C37_NoOverflow ==
  (OffsetCalled /\ ~WLess(last.arg, Len(header_data.v))) =>
    LET pages == PagesAt(last.arg, Len(header_data.v)) IN
    /\ ~last.panicked
    /\ last.ret.millis = WMulAdd(pages, page_duration_ms, 0)
    /\ last.ret.packet = WMulAdd(pages, spec.page_body_size \div spec.packet_size, 0)
    /\ ~FirstGranule.panicked
    /\ FirstGranule.granulepos = FirstGranule.exact

\* The last packet number whose granule position fits in a u32, 2^32 div 960
\* (computed as (2^31 - 1) div 480); it is that of an input of 24.9 hours.
LastPacketNum ==
  ((LIMB \div 2 - 1) * LIMB + (LIMB - 1)) \div ((RATE \div (1000 \div FRAME_SIZE)) \div 2)

\* The same for positions whose packet number is below that.
NoOverflowBelow ==
  (OffsetCalled /\ ~WLess(last.arg, Len(header_data.v))) =>
    LET pages == PagesAt(last.arg, Len(header_data.v)) IN
    (pages[3] = 0 /\ pages[2] * LIMB + pages[1] < LastPacketNum \div 26) =>
      /\ ~last.panicked
      /\ last.ret.millis = WMulAdd(pages, page_duration_ms, 0)
      /\ last.ret.packet = WMulAdd(pages, spec.page_body_size \div spec.packet_size, 0)
      /\ ~FirstGranule.panicked
      /\ FirstGranule.granulepos = FirstGranule.exact

\* The user u has a row in library_permissions for the library l.
HasPermission(u, l) == db.library_permissions[<<l, u>>] >= 1

\* C38: whatever the order of the User::create and Library::create calls
\* that succeeded, every user has a library permission for every library.
C38_EveryUserPermitted ==
  \A u \in db.users, l \in db.libraries : HasPermission(u, l)

\* Users and libraries were created, some user before some library and some
\* library before some user.
C38_Witness ==
  /\ db.users = UserIds /\ db.libraries = LibraryIds
  /\ \A u \in UserIds, l \in LibraryIds : db.library_permissions[<<l, u>>] = 1
  /\ \E c \in Conns : conns[c].ret = "Ok"

\* The rows of audiobooks the last ensure_exists_in looked for.
Found(a, books) ==
  {b \in books : b.library_id = a.library /\ b.location = a.relative_path}

\* The step is a call of ensure_exists_in that returned Ok.
EnsureStep ==
  Len(hist') > Len(hist) /\ last'.op = "ensure_exists_in" /\ last'.err = "none"

\* C39: ensure_exists_in, when the library has a book at the path, changes
\* no row but that book's; when it has none, it inserts one row, new_book,
\* and changes no other.
C39_EnsureFrame ==
  [][EnsureStep =>
       IF Found(last'.arg, db.audiobooks) # {}
       THEN /\ \A b \in db.audiobooks \ Found(last'.arg, db.audiobooks) :
                 b \in db'.audiobooks
            /\ Cardinality(db'.audiobooks) = Cardinality(db.audiobooks)
       ELSE /\ last'.arg.new_book \notin db.audiobooks
            /\ db'.audiobooks = db.audiobooks \cup {last'.arg.new_book}]_vars

\* The branch that inserts does as C39 says, and the branch that updates
\* gives every row of the table the columns of new_book.
EnsureInsertsOne ==
  [][EnsureStep =>
       IF Found(last'.arg, db.audiobooks) # {}
       THEN db'.audiobooks = {changeset(b, last'.arg.new_book) : b \in db.audiobooks}
       ELSE /\ last'.arg.new_book \notin db.audiobooks
            /\ db'.audiobooks = db.audiobooks \cup {last'.arg.new_book}]_vars

\* No two rows of users have the same email.
EmailsDistinct ==
  \A u, v \in db.users : db.email[u] = db.email[v] => u = v

\* C40: no two users have the same email, and of two User::create calls
\* with the same email at most one returns Ok, the other AlreadyExists.
C40_EmailUnique ==
  /\ EmailsDistinct
  /\ \A c \in Conns : conns[c].pc = "done" => conns[c].ret \in {"Ok", "AlreadyExists"}
  /\ \A c, e \in Conns :
       (c # e /\ conns[c].ret = "Ok" /\ conns[e].ret = "Ok") =>
         conns[c].email # conns[e].email

\* What holds: calls of which one made its query after the other's
\* transaction do not both return Ok, and with the constraint in the schema
\* no two rows have the same email.
EmailUniqueIfConstrained ==
  /\ db.unique_email => EmailsDistinct
  /\ \A c \in Conns :
       conns[c].ret = "AlreadyExists" => email_taken(db, conns[c].email)

====
